---- MODULE Spec2Model ----
(***************************************************************************)
(* The intcode virtual machine of src/src/intcode: the opcode decoder and  *)
(* the parameter resolver of instruction.rs, the executors, and the run    *)
(* loop of program.rs, as a state machine over one VM instance.            *)
(*                                                                         *)
(* Machine integers: TLC's integers are 32 bits wide, so the i64 cells and *)
(* the usize addresses of the program are modelled as two's-complement     *)
(* words of WordBits bits (the same width for both, as on a 64-bit         *)
(* target): the conversions and the overflow behaviour keep their shape.   *)
(***************************************************************************)
EXTENDS Integers, Sequences, FiniteSets, TLC

\* ------------------------------------------------------------------ bounds

\* Longest initial memory snapshot drawn cell by cell.
MaxLen == 4
\* Most instructions one run executes in the model (a run may loop for ever).
MaxSteps == 5
\* Width, in bits, of the model's machine words.
WordBits == 15

\* ------------------------------------------------------- machine integers

Modulus == 2 ^ WordBits
IMax == 2 ^ (WordBits - 1) - 1
IMin == -(2 ^ (WordBits - 1))

\* Mutant of AsUsize: a negative value is converted to its magnitude.
AsUsize_magnitude(v) == IF v < 0 THEN -v ELSE v

\* `v as usize` for an i64 v: the same bits read as unsigned.
AsUsize(v) == IF v < 0 THEN v + Modulus ELSE v

\* Two's-complement wrap of a mathematical integer into the i64 range.
Wrap(x) == ((x - IMin) % Modulus) + IMin

\* Mutant of Rem: the remainder of the magnitude, so that -1 % 100 = 1.
Rem_magnitude(a, b) == (IF a < 0 THEN -a ELSE a) % b

\* Mutant of Rem: the remainder of the flooring division (rem_euclid), which
\* is never negative.
Rem_floor(a, b) == a % b

\* Rust's `%` and `/` on signed integers truncate toward zero.
Rem(a, b) == IF a >= 0 THEN a % b ELSE -((-a) % b)
Quot(a, b) == IF a >= 0 THEN a \div b ELSE -((-a) \div b)

\* Option<T>
None == [some |-> FALSE, value |-> 0]
Some(v) == [some |-> TRUE, value |-> v]

\* i64::checked_pow: None when the power does not fit an i64.
checked_pow(base, exp) ==
    IF exp > WordBits \/ base ^ exp > IMax THEN None ELSE Some(base ^ exp)

\* ---------------------------------------------------------------- decoder

FIRST == 1
SECOND == 2

Position == "Position"
Immediate == "Immediate"

OkMode(m) == [ok |-> TRUE, mode |-> m, kind |-> "None", arg |-> 0]
ErrMode(k, a) == [ok |-> FALSE, mode |-> Position, kind |-> k, arg |-> a]

\* Mutant of parse_parameter_mode: the error carries the parameter's index
\* counted from 0 instead of `which`.
parse_parameter_mode_index(value, which) ==
    LET place == checked_pow(10, which + 1)
    IN  IF ~place.some THEN ErrMode("Panic", which)
        ELSE LET q == Quot(value, place.value)
             IN  IF q \in {0, 10} THEN OkMode(Position)
                 ELSE IF q \in {1, 11} THEN OkMode(Immediate)
                 ELSE ErrMode("InvalidParameterMode", which - 1)

\* `checked_pow(..).unwrap()` aborts on None; the quotient is matched whole
\* against 0 | 10 and 1 | 11.
parse_parameter_mode(value, which) ==
    LET place == checked_pow(10, which + 1)
    IN  IF ~place.some THEN ErrMode("Panic", which)
        ELSE LET q == Quot(value, place.value)
             IN  IF q \in {0, 10} THEN OkMode(Position)
                 ELSE IF q \in {1, 11} THEN OkMode(Immediate)
                 ELSE ErrMode("InvalidParameterMode", which)

OkOpcode(name, cmp, modes) ==
    [ok |-> TRUE, name |-> name, cmp |-> cmp, modes |-> modes,
     kind |-> "None", arg |-> 0]
ErrOpcode(k, a) ==
    [ok |-> FALSE, name |-> "None", cmp |-> FALSE, modes |-> <<>>,
     kind |-> k, arg |-> a]

\* An opcode with two read parameters: `?` returns the first mode's error
\* before the second mode is parsed.
TwoModes(name, cmp, value) ==
    LET p1 == parse_parameter_mode(value, FIRST)
        p2 == parse_parameter_mode(value, SECOND)
    IN  IF ~p1.ok THEN ErrOpcode(p1.kind, p1.arg)
        ELSE IF ~p2.ok THEN ErrOpcode(p2.kind, p2.arg)
        ELSE OkOpcode(name, cmp, <<p1.mode, p2.mode>>)

OneMode(name, value) ==
    LET p1 == parse_parameter_mode(value, FIRST)
    IN  IF ~p1.ok THEN ErrOpcode(p1.kind, p1.arg)
        ELSE OkOpcode(name, FALSE, <<p1.mode>>)

\* Opcode::LessThan is dispatched by Program::run; its decoding is modelled
\* like the other two-read opcodes.
parse_less_than(value) == TwoModes("LessThan", FALSE, value)

\* Mutant of parse: the Store arm validates the digit of its parameter as the
\* Print arm does.
parse_store_mode(value) ==
    LET family == Rem(value, 100)
    IN  CASE family = 1 -> TwoModes("Addition", FALSE, value)
          [] family = 2 -> TwoModes("Multiplication", FALSE, value)
          [] family = 3 -> OneMode("Store", value)
          [] family = 4 -> OneMode("Print", value)
          [] family = 5 -> TwoModes("JumpIf", TRUE, value)
          [] family = 6 -> TwoModes("JumpIf", FALSE, value)
          [] family = 7 -> parse_less_than(value)
          [] family = 99 -> OkOpcode("Halt", FALSE, <<>>)
          [] OTHER -> ErrOpcode("InvalidOpcode", 0)

\* Mutant of parse: the digits are taken from `value.abs()`, which overflows
\* for i64::MIN and aborts.
parse_abs(value) ==
    IF value = IMin THEN ErrOpcode("Panic", 0)
    ELSE
    LET v == IF value < 0 THEN -value ELSE value
        family == Rem(v, 100)
    IN  CASE family = 1 -> TwoModes("Addition", FALSE, v)
          [] family = 2 -> TwoModes("Multiplication", FALSE, v)
          [] family = 3 -> OkOpcode("Store", FALSE, <<>>)
          [] family = 4 -> OneMode("Print", v)
          [] family = 5 -> TwoModes("JumpIf", TRUE, v)
          [] family = 6 -> TwoModes("JumpIf", FALSE, v)
          [] family = 7 -> parse_less_than(v)
          [] family = 99 -> OkOpcode("Halt", FALSE, <<>>)
          [] OTHER -> ErrOpcode("InvalidOpcode", 0)

parse(value) ==
    LET family == Rem(value, 100)
    IN  CASE family = 1 -> TwoModes("Addition", FALSE, value)
          [] family = 2 -> TwoModes("Multiplication", FALSE, value)
          [] family = 3 -> OkOpcode("Store", FALSE, <<>>)
          [] family = 4 -> OneMode("Print", value)
          [] family = 5 -> TwoModes("JumpIf", TRUE, value)
          [] family = 6 -> TwoModes("JumpIf", FALSE, value)
          [] family = 7 -> parse_less_than(value)
          [] family = 99 -> OkOpcode("Halt", FALSE, <<>>)
          [] OTHER -> ErrOpcode("InvalidOpcode", 0)

\* --------------------------------------------------------------- resolver

Read == "Read"
Write == "Write"

\* Memory is zero-indexed in the program; sequences start at 1.
get_memory_len(mem) == Len(mem)
Cell(mem, address) == mem[address + 1]

\* The range test process_parameters applies to a Position-mode read address
\* and to a write address.
address_rejected(address, len) == address > len

PPOk(rv, wa, reads) ==
    [tag |-> "Ok", read_values |-> rv, write_addrs |-> wa,
     kind |-> "None", arg |-> 0, arg2 |-> 0, reads |-> reads]
PPErr(k, a, a2, reads) ==
    [tag |-> "Err", read_values |-> <<>>, write_addrs |-> <<>>,
     kind |-> k, arg |-> a, arg2 |-> a2, reads |-> reads]
\* An indexing of memory out of bounds aborts the thread.
PPPanic(reads) ==
    [tag |-> "Panic", read_values |-> <<>>, write_addrs |-> <<>>,
     kind |-> "IndexOutOfBounds", arg |-> 0, arg2 |-> 0, reads |-> reads]

CountRead(types) == Cardinality({i \in 1..Len(types) : types[i] = Read})

\* The loop of process_parameters from parameter `index` (1-based) on; `first`
\* is the address of the first parameter cell, `reads` the addresses handed to
\* read_memory so far.
RECURSIVE resolve_from(_, _, _, _, _, _, _, _)
resolve_from(mem, first, types, modes, index, rv, wa, reads) ==
    IF index > Len(types) THEN PPOk(rv, wa, reads)
    ELSE
    LET cell == first + (index - 1)
        reads1 == Append(reads, cell)
    IN  IF cell >= get_memory_len(mem) THEN PPPanic(reads1)
        ELSE
        LET raw == Cell(mem, cell)
            address == AsUsize(raw)
        IN  IF types[index] = Read
            THEN IF Len(rv) >= Len(modes) THEN PPPanic(reads)
                 ELSE IF modes[Len(rv) + 1] = Position
                 THEN IF address_rejected(address, get_memory_len(mem))
                      THEN PPErr("AddressOutOfRange", address, 0, reads1)
                      ELSE IF address >= get_memory_len(mem)
                      THEN PPPanic(Append(reads1, address))
                      ELSE resolve_from(mem, first, types, modes, index + 1,
                                        Append(rv, Cell(mem, address)), wa,
                                        Append(reads1, address))
                 ELSE resolve_from(mem, first, types, modes, index + 1,
                                   Append(rv, raw), wa, reads1)
            ELSE IF address_rejected(address, get_memory_len(mem))
                 THEN PPErr("AddressOutOfRange", address, 0, reads1)
                 ELSE resolve_from(mem, first, types, modes, index + 1,
                                   rv, Append(wa, address), reads1)

\* Mutant of not_enough_parameters: the comparison off by one, so that an
\* instruction ending on the last memory cell is rejected.
not_enough_parameters_strict(address, instruction_size, len) ==
    address + instruction_size >= len

\* Whether the instruction at `address` runs past the end of memory.
not_enough_parameters(address, instruction_size, len) ==
    address + instruction_size > len

\* Mutant of process_parameters: the length of the instruction is tested
\* before the number of read modes.
process_parameters_size_first(mem, ip, param_types, read_modes) ==
    LET instruction_size == 1 + Len(param_types)
        count_read_params == CountRead(param_types)
    IN  IF not_enough_parameters(ip, instruction_size, get_memory_len(mem))
        THEN PPErr("NotEnoughParameters", 0, 0, <<>>)
        ELSE IF Len(read_modes) # count_read_params
        THEN PPErr("ReadModeMismatch", count_read_params, Len(read_modes), <<>>)
        ELSE resolve_from(mem, ip + 1, param_types, read_modes, 1,
                          <<>>, <<>>, <<>>)

process_parameters(mem, ip, param_types, read_modes) ==
    LET instruction_size == 1 + Len(param_types)
        count_read_params == CountRead(param_types)
    IN  IF Len(read_modes) # count_read_params
        THEN PPErr("ReadModeMismatch", count_read_params, Len(read_modes), <<>>)
        ELSE IF not_enough_parameters(ip, instruction_size, get_memory_len(mem))
        THEN PPErr("NotEnoughParameters", 0, 0, <<>>)
        ELSE resolve_from(mem, ip + 1, param_types, read_modes, 1,
                          <<>>, <<>>, <<>>)

\* -------------------------------------------------------------- executors

\* Values the input callable may return.
InputVals == {0, 8, 77}

\* What one executor call does: `tag` is "Ok" (returns the next instruction
\* pointer `next`), "Err" (returns ErrorKind `kind`) or "Panic" (aborts);
\* `pp` is what process_parameters returned to it, `inp` and `out` are the
\* values read from input and written to output, `writes` the addresses
\* handed to write_memory.
ExOk(mem, next, pp, inp, out, writes) ==
    [tag |-> "Ok", memory |-> mem, next |-> next, kind |-> "None",
     arg |-> 0, arg2 |-> 0, pp |-> pp, inp |-> inp, out |-> out,
     writes |-> writes]
ExErr(mem, pp) ==
    [tag |-> "Err", memory |-> mem, next |-> 0, kind |-> pp.kind,
     arg |-> pp.arg, arg2 |-> pp.arg2, pp |-> pp, inp |-> <<>>,
     out |-> <<>>, writes |-> <<>>]
ExPanic(mem, why, pp, inp, writes) ==
    [tag |-> "Panic", memory |-> mem, next |-> 0, kind |-> why,
     arg |-> 0, arg2 |-> 0, pp |-> pp, inp |-> inp, out |-> <<>>,
     writes |-> writes]

\* Mutant of write_memory: a write to the address after the last cell makes
\* the memory one cell longer.
write_memory_grow(mem, address, value, next, pp, inp) ==
    IF address > get_memory_len(mem)
    THEN ExPanic(mem, "IndexOutOfBounds", pp, inp, <<address>>)
    ELSE IF address = get_memory_len(mem)
    THEN ExOk(Append(mem, value), next, pp, inp, <<>>, <<address>>)
    ELSE ExOk([mem EXCEPT ![address + 1] = value], next, pp, inp, <<>>,
              <<address>>)

\* System::write_memory: indexes memory, so an address outside it aborts.
write_memory(mem, address, value, next, pp, inp) ==
    IF address >= get_memory_len(mem)
    THEN ExPanic(mem, "IndexOutOfBounds", pp, inp, <<address>>)
    ELSE ExOk([mem EXCEPT ![address + 1] = value], next, pp, inp, <<>>,
              <<address>>)

\* An i64 `+` or `*`: a result outside the i64 range aborts in a build with
\* overflow checks and wraps in one without.
Arith(x) ==
    IF x >= IMin /\ x <= IMax
    THEN {[panic |-> FALSE, value |-> x]}
    ELSE {[panic |-> TRUE, value |-> 0], [panic |-> FALSE, value |-> Wrap(x)]}

Sum(a, b) == Arith(a + b)
Product(a, b) == Arith(a * b)
\* Mutant of Less: the comparison is `<=`.
Less_or_equal(a, b) == {[panic |-> FALSE, value |-> IF a <= b THEN 1 ELSE 0]}
Less(a, b) == {[panic |-> FALSE, value |-> IF a < b THEN 1 ELSE 0]}

\* The shape add, multiply and less_than share: two reads and one write in
\* four cells; `results` are the outcomes of the operation on the two values.
Binary(mem, ip, pp, results) ==
    IF pp.tag = "Err" THEN {ExErr(mem, pp)}
    ELSE IF pp.tag = "Panic" THEN {ExPanic(mem, pp.kind, pp, <<>>, <<>>)}
    ELSE {IF r.panic
          THEN ExPanic(mem, "ArithmeticOverflow", pp, <<>>, <<>>)
          ELSE write_memory(mem, pp.write_addrs[1], r.value, ip + 4, pp, <<>>)
          : r \in results}

\* Mutant of add: the destination named by the third parameter cell is zeroed
\* before the operands are resolved, so a failing Addition leaves a write.
add_eager(mem, ip, read_modes) ==
    LET pp == process_parameters(mem, ip, <<Read, Read, Write>>, read_modes)
        target == IF ip + 3 < Len(mem) THEN AsUsize(Cell(mem, ip + 3)) ELSE 0
        zeroed == IF target < Len(mem)
                  THEN [mem EXCEPT ![target + 1] = 0] ELSE mem
    IN  Binary(zeroed, ip, pp,
               IF pp.tag = "Ok"
               THEN Sum(pp.read_values[1], pp.read_values[2]) ELSE {})

\* Mutant of add: the first operand is stored at the destination and the
\* second is read and added after that write.
add_reread(mem, ip, read_modes) ==
    LET pp == process_parameters(mem, ip, <<Read, Read, Write>>, read_modes)
        w == pp.write_addrs[1]
        stored == IF w < Len(mem)
                  THEN [mem EXCEPT ![w + 1] = pp.read_values[1]] ELSE mem
        second == IF read_modes[2] = Position
                  THEN Cell(stored, AsUsize(Cell(mem, ip + 2)))
                  ELSE pp.read_values[2]
    IN  Binary(mem, ip, pp,
               IF pp.tag = "Ok" THEN Sum(pp.read_values[1], second) ELSE {})

add(mem, ip, read_modes) ==
    LET pp == process_parameters(mem, ip, <<Read, Read, Write>>, read_modes)
    IN  Binary(mem, ip, pp,
               IF pp.tag = "Ok"
               THEN Sum(pp.read_values[1], pp.read_values[2]) ELSE {})

multiply(mem, ip, read_modes) ==
    LET pp == process_parameters(mem, ip, <<Read, Read, Write>>, read_modes)
    IN  Binary(mem, ip, pp,
               IF pp.tag = "Ok"
               THEN Product(pp.read_values[1], pp.read_values[2]) ELSE {})

\* instruction::less_than is called by Program::run; it is modelled as the
\* third two-read, one-write executor.
less_than(mem, ip, read_modes) ==
    LET pp == process_parameters(mem, ip, <<Read, Read, Write>>, read_modes)
    IN  Binary(mem, ip, pp,
               IF pp.tag = "Ok"
               THEN Less(pp.read_values[1], pp.read_values[2]) ELSE {})

\* Mutant of jump_if: a jump that is not taken leaves the pointer on the
\* jump instruction.
jump_if_stay(cmp, mem, ip, read_modes) ==
    LET pp == process_parameters(mem, ip, <<Read, Read>>, read_modes)
    IN  IF pp.tag = "Err" THEN {ExErr(mem, pp)}
        ELSE IF pp.tag = "Panic" THEN {ExPanic(mem, pp.kind, pp, <<>>, <<>>)}
        ELSE LET comparand == pp.read_values[1] # 0
             IN  {ExOk(mem,
                       IF cmp = comparand
                       THEN AsUsize(pp.read_values[2])
                       ELSE ip,
                       pp, <<>>, <<>>, <<>>)}

\* Mutant of jump_if: the second operand is taken as a distance from the
\* instruction, not as the next instruction pointer itself.
jump_if_relative(cmp, mem, ip, read_modes) ==
    LET pp == process_parameters(mem, ip, <<Read, Read>>, read_modes)
    IN  IF pp.tag = "Err" THEN {ExErr(mem, pp)}
        ELSE IF pp.tag = "Panic" THEN {ExPanic(mem, pp.kind, pp, <<>>, <<>>)}
        ELSE LET comparand == pp.read_values[1] # 0
             IN  {ExOk(mem,
                       IF cmp = comparand
                       THEN AsUsize(ip + pp.read_values[2])
                       ELSE ip + 3,
                       pp, <<>>, <<>>, <<>>)}

\* Mutant of jump_if: `cmp` is ignored, every jump is taken on a non-zero
\* first operand.
jump_if_nonzero(cmp, mem, ip, read_modes) ==
    LET pp == process_parameters(mem, ip, <<Read, Read>>, read_modes)
    IN  IF pp.tag = "Err" THEN {ExErr(mem, pp)}
        ELSE IF pp.tag = "Panic" THEN {ExPanic(mem, pp.kind, pp, <<>>, <<>>)}
        ELSE {ExOk(mem,
                   IF pp.read_values[1] # 0
                   THEN AsUsize(pp.read_values[2])
                   ELSE ip + 3,
                   pp, <<>>, <<>>, <<>>)}

jump_if(cmp, mem, ip, read_modes) ==
    LET pp == process_parameters(mem, ip, <<Read, Read>>, read_modes)
    IN  IF pp.tag = "Err" THEN {ExErr(mem, pp)}
        ELSE IF pp.tag = "Panic" THEN {ExPanic(mem, pp.kind, pp, <<>>, <<>>)}
        ELSE LET comparand == pp.read_values[1] # 0
             IN  {ExOk(mem,
                       IF cmp = comparand
                       THEN AsUsize(pp.read_values[2])
                       ELSE ip + 3,
                       pp, <<>>, <<>>, <<>>)}

\* Mutant of print: the executor hands process_parameters no read mode for
\* its one Read parameter.
print_no_mode(mem, ip, read_mode) ==
    LET pp == process_parameters(mem, ip, <<Read>>, <<>>)
    IN  IF pp.tag = "Err" THEN {ExErr(mem, pp)}
        ELSE IF pp.tag = "Panic" THEN {ExPanic(mem, pp.kind, pp, <<>>, <<>>)}
        ELSE {ExOk(mem, ip + 2, pp, <<>>, <<pp.read_values[1]>>, <<>>)}

\* Mutant of print: the parameter cell itself is emitted, whatever the mode.
print_raw(mem, ip, read_mode) ==
    LET pp == process_parameters(mem, ip, <<Read>>, <<read_mode>>)
    IN  IF pp.tag = "Err" THEN {ExErr(mem, pp)}
        ELSE IF pp.tag = "Panic" THEN {ExPanic(mem, pp.kind, pp, <<>>, <<>>)}
        ELSE {ExOk(mem, ip + 2, pp, <<>>, <<Cell(mem, ip + 1)>>, <<>>)}

print(mem, ip, read_mode) ==
    LET pp == process_parameters(mem, ip, <<Read>>, <<read_mode>>)
    IN  IF pp.tag = "Err" THEN {ExErr(mem, pp)}
        ELSE IF pp.tag = "Panic" THEN {ExPanic(mem, pp.kind, pp, <<>>, <<>>)}
        ELSE {ExOk(mem, ip + 2, pp, <<>>, <<pp.read_values[1]>>, <<>>)}

\* Mutant of store: the value written is not tied to the value the input
\* callable returned.
store_any(mem, ip) ==
    LET pp == process_parameters(mem, ip, <<Write>>, <<>>)
    IN  IF pp.tag = "Err" THEN {ExErr(mem, pp)}
        ELSE IF pp.tag = "Panic" THEN {ExPanic(mem, pp.kind, pp, <<>>, <<>>)}
        ELSE {write_memory(mem, pp.write_addrs[1], w, ip + 2, pp, <<v>>)
              : v \in InputVals, w \in InputVals}

\* Mutant of store: read_input is called twice and the second value is
\* written.
store_twice(mem, ip) ==
    LET pp == process_parameters(mem, ip, <<Write>>, <<>>)
    IN  IF pp.tag = "Err" THEN {ExErr(mem, pp)}
        ELSE IF pp.tag = "Panic" THEN {ExPanic(mem, pp.kind, pp, <<>>, <<>>)}
        ELSE {write_memory(mem, pp.write_addrs[1], v, ip + 2, pp, <<u, v>>)
              : u \in InputVals, v \in InputVals}

\* Mutant of store: read_input is called before the parameters are resolved,
\* so a Store whose resolution fails has consumed a value.
store_eager(mem, ip) ==
    LET pp == process_parameters(mem, ip, <<Write>>, <<>>)
    IN  IF pp.tag = "Err"
        THEN {[ExErr(mem, pp) EXCEPT !.inp = <<v>>] : v \in InputVals}
        ELSE IF pp.tag = "Panic"
        THEN {ExPanic(mem, pp.kind, pp, <<v>>, <<>>) : v \in InputVals}
        ELSE {write_memory(mem, pp.write_addrs[1], v, ip + 2, pp, <<v>>)
              : v \in InputVals}

\* store: read_input is called as an argument of write_memory, so the value
\* is consumed before write_memory indexes memory.
store(mem, ip) ==
    LET pp == process_parameters(mem, ip, <<Write>>, <<>>)
    IN  IF pp.tag = "Err" THEN {ExErr(mem, pp)}
        ELSE IF pp.tag = "Panic" THEN {ExPanic(mem, pp.kind, pp, <<>>, <<>>)}
        ELSE {write_memory(mem, pp.write_addrs[1], v, ip + 2, pp, <<v>>)
              : v \in InputVals}

\* --------------------------------------------------------------- run loop

VARIABLES
    memory,               \* Program::memory
    instruction_pointer,  \* Program::instruction_pointer
    status,               \* where the call of Program::run stands
    error,                \* the Error run returned, when status = "Failed"
    output,               \* the values handed to output_fn, in order
    input_log,            \* the values input_fn returned, in order
    init,                 \* the caller's snapshot handed to with_io
    steps,                \* instructions dispatched so far
    last,                 \* what the latest loop iteration did, in `jumps`
                          \* how many jumps the run has taken and in
                          \* `overflow` how its overflows, if any, ended
    vm,                   \* which Program runs: program.rs or the older mod.rs
    peer                  \* a second instance of Program, when one is built

vars == <<memory, instruction_pointer, status, error, output, input_log,
          init, steps, last, vm, peer>>

NoError == [kind |-> "None", arg |-> 0, arg2 |-> 0, address |-> None]

\* Error::new
Error_new(kind, arg, arg2, address) ==
    [kind |-> kind, arg |-> arg, arg2 |-> arg2, address |-> Some(address)]

\* Mutant of enrich: the error converted with From<ErrorKind>, which attaches
\* no address.
enrich_none(kind, arg, arg2, address) ==
    [kind |-> kind, arg |-> arg, arg2 |-> arg2, address |-> None]

\* ResultExt::address on an Err: the error enriched with `address`.
enrich(kind, arg, arg2, address) == Error_new(kind, arg, arg2, address)

NoLast ==
    [address |-> 0, raw |-> 0, opcode |-> "None", cmp |-> FALSE,
     modes |-> <<>>, tag |-> "None", kind |-> "None", next |-> 0, before |-> <<>>,
     resolved |-> FALSE, read_values |-> <<>>, write_addrs |-> <<>>,
     reads |-> <<>>, inp |-> <<>>, out |-> <<>>, writes |-> <<>>,
     io |-> "None", types |-> <<>>, jumps |-> 0, overflow |-> {}]

\* Whether the iteration recorded in `l` was a jump that took its jump:
\* jump_if returned the second operand as the next instruction pointer.
jump_taken(l) ==
    /\ l.opcode = "JumpIf"
    /\ l.tag = "Ok"
    /\ l.cmp = (l.read_values[1] # 0)

\* What the iteration recorded in `l` shows of the build: an addition or a
\* multiplication whose result no i64 holds aborted (overflow checks) or went
\* on with the wrapped value (no overflow checks).
overflow_seen(l) ==
    IF l.kind = "ArithmeticOverflow" THEN {"abort"}
    ELSE IF l.opcode \in {"Addition", "Multiplication"} /\ l.tag = "Ok"
    THEN LET exact == IF l.opcode = "Addition"
                      THEN l.read_values[1] + l.read_values[2]
                      ELSE l.read_values[1] * l.read_values[2]
         IN  IF exact < IMin \/ exact > IMax THEN {"wrap"} ELSE {}
    ELSE {}

\* No second instance has been built.
NoPeer ==
    [status |-> "Absent", snapshot |-> <<>>, memory |-> <<>>,
     instruction_pointer |-> 0, error |-> NoError, output |-> <<>>,
     input_log |-> <<>>, steps |-> 0, last |-> NoLast]

Dispatch(opcode, mem, ip) ==
    CASE opcode.name = "Addition" -> add(mem, ip, opcode.modes)
      [] opcode.name = "JumpIf" -> jump_if(opcode.cmp, mem, ip, opcode.modes)
      [] opcode.name = "LessThan" -> less_than(mem, ip, opcode.modes)
      [] opcode.name = "Multiplication" -> multiply(mem, ip, opcode.modes)
      [] opcode.name = "Print" -> print(mem, ip, opcode.modes[1])
      [] opcode.name = "Store" -> store(mem, ip)

\* Mutant of at_end: the loop ends only once the pointer is past the end.
at_end_past(ip, len) == ip > len

\* The test that ends the loop with Ok after an instruction.
at_end(ip, len) == ip = len

\* The end of one loop iteration whose executor returned Ok(advance_address):
\* the pointer is assigned, then asserted to be within memory, then compared
\* with the length.
advance(ex, len) ==
    IF ex.next > len THEN "Aborted"
    ELSE IF at_end(ex.next, len) THEN "Halted"
    ELSE "Running"

\* Mutant of halt: Halt is run as an instruction of one cell, after which the
\* loop goes on unless the pointer reached the end of memory.
halt_advance(mem, ip, dec) ==
    [status |-> IF at_end(ip + 1, get_memory_len(mem))
                THEN "Halted" ELSE "Running",
     memory |-> mem, ip |-> ip + 1, error |-> NoError,
     last |-> [dec EXCEPT !.tag = "Halt", !.next = ip + 1]]

\* The arm `Opcode::Halt => return Ok(())`: run returns with memory and the
\* pointer as they are.
halt(mem, ip, dec) ==
    [status |-> "Halted", memory |-> mem, ip |-> ip, error |-> NoError,
     last |-> [dec EXCEPT !.tag = "Halt"]]

\* Mutant of fetch: the cell is taken from the snapshot the VM was built
\* from, as if instructions were kept apart from the data.
fetch_initial(mem, ip) == Cell(init, ip)

\* The cell the loop hands to the decoder: the current memory at the pointer.
fetch(mem, ip) == Cell(mem, ip)

\* One iteration of the loop of Program::run from (mem, ip): the set of
\* records [status, memory, ip, error, last] it can end in.
Iteration(mem, ip) ==
    LET base == [NoLast EXCEPT !.address = ip, !.before = mem]
    IN
    IF ip >= get_memory_len(mem)
    THEN {[status |-> "Aborted", memory |-> mem, ip |-> ip, error |-> NoError,
           last |-> [base EXCEPT !.tag = "Panic",
                                 !.kind = "IndexOutOfBounds"]]}
    ELSE
    LET raw == fetch(mem, ip)
        opcode == parse(raw)
        dec == [base EXCEPT !.raw = raw, !.opcode = opcode.name,
                            !.cmp = opcode.cmp, !.modes = opcode.modes]
    IN  IF ~opcode.ok /\ opcode.kind = "Panic"
        THEN {[status |-> "Aborted", memory |-> mem, ip |-> ip,
               error |-> NoError,
               last |-> [dec EXCEPT !.tag = "Panic", !.kind = "Unwrap"]]}
        ELSE IF ~opcode.ok
        THEN {[status |-> "Failed", memory |-> mem, ip |-> ip,
               error |-> enrich(opcode.kind, opcode.arg, 0, ip),
               last |-> [dec EXCEPT !.tag = "DecodeErr",
                                    !.kind = opcode.kind]]}
        ELSE IF opcode.name = "Halt" THEN {halt(mem, ip, dec)}
        ELSE
        {LET l == [dec EXCEPT !.tag = ex.tag, !.kind = ex.kind,
                              !.next = ex.next,
                              !.resolved = (ex.pp.tag = "Ok"),
                              !.read_values = ex.pp.read_values,
                              !.write_addrs = ex.pp.write_addrs,
                              !.reads = ex.pp.reads, !.inp = ex.inp,
                              !.out = ex.out, !.writes = ex.writes]
         IN  CASE ex.tag = "Err" ->
                    [status |-> "Failed", memory |-> ex.memory, ip |-> ip,
                     error |-> enrich(ex.kind, ex.arg, ex.arg2, ip),
                     last |-> l]
               [] ex.tag = "Panic" ->
                    [status |-> "Aborted", memory |-> ex.memory, ip |-> ip,
                     error |-> NoError, last |-> l]
               [] ex.tag = "Ok" ->
                    [status |-> advance(ex, get_memory_len(mem)),
                     memory |-> ex.memory, ip |-> ex.next,
                     error |-> NoError, last |-> l]
         : ex \in Dispatch(opcode, mem, ip)}

\* Cell values the initial snapshots are drawn from: every opcode family, the
\* immediate-mode forms, small addresses, a negative value and the largest
\* i64.
Cells == {-1, 0, 1, 2, 3, 4, 5, 6, 7, 99, 104, 1101, 1105, IMax}

\* The programs of the tests of day 5, part 2: two that tell whether the
\* input is zero, with the jump operands in Position and in Immediate mode,
\* and one that compares the input with 8.
Day5JumpPosition == <<3, 12, 6, 12, 15, 1, 13, 14, 13, 4, 13, 99, -1, 0, 1, 9>>
Day5JumpImmediate == <<3, 3, 1105, -1, 9, 1101, 0, 0, 12, 4, 12, 99, 1>>
Day5Compare ==
    <<3, 21, 1008, 21, 8, 20, 1005, 20, 22, 107, 8, 21, 20, 1006, 20, 31,
      1106, 0, 36, 98, 0, 0, 1002, 21, 125, 20, 4, 20, 1105, 1, 46, 104,
      999, 1105, 1, 46, 1101, 1000, 1, 20, 4, 20, 1105, 1, 46, 98, 99>>

\* Programs of the repository's tests.
Examples ==
    {<<1, 5, 6, 7, 5555, 3, 7, 0>>,
     <<1, 5555, 6, 7, 99, 3, 7, 0>>,
     <<1, 1, 1, 4, 99, 5, 6, 0, 99>>,
     <<1, 9, 10, 3, 2, 3, 11, 0, 99, 30, 40, 50>>,
     <<1, 0, 0, 0, 99>>,
     <<2, 3, 0, 3, 99>>,
     <<2, 4, 4, 5, 99, 0>>,
     <<1101, 100, -1, 0>>,
     <<5, 5, 6, 5555, 99, 1, 4>>,
     <<1005, 5, 4, 5555, 99, 1>>,
     <<6, 4, 5, 99, 1, 5555>>,
     <<1106, 0, 4, 5555, 99>>,
     <<7, 5, 6, 7, 99, 1, 2, -1>>,
     <<7, 5, 6, 7, 99, 2, 2, -1>>,
     <<1007, 5, 88, 6, 99, 1, -1>>,
     <<107, 88, 5, 6, 99, 88, -1>>,
     <<3, 3, 99, 0>>,
     <<99, 1101, 10, 20, 0>>,
     <<4, 3, 99, 77>>,
     <<104, 77>>,
     Day5JumpPosition,
     Day5JumpImmediate,
     Day5Compare}

\* The first cells with parameters, in every combination of parameter modes.
ModeForms ==
    {f + 100 * m : f \in {1, 2, 5, 6, 7}, m \in {0, 1, 10, 11}}
        \cup {4, 104}

\* Parameter cells: an address before memory, every address of a four-cell
\* memory, and its length.
Operands == {-1, 0, 1, 2, 3, 4}

\* One instruction with parameters in each mode combination.
ModalPrograms ==
    {<<op, a, b, c>> : op \in ModeForms, a \in Operands, b \in Operands,
                       c \in Operands}

\* A Store or a Halt whose first cell carries digits above the low two,
\* followed by a Halt.
HighDigitForms == {103, 1003, 10003, 199}
HighDigitPrograms ==
    {<<op, a, 99>> : op \in HighDigitForms, a \in Operands}

\* An Addition whose digits for the first parameter no mode has.
InvalidModeForms == {201, 2001}
InvalidModePrograms == {<<op, 0, 0, 0>> : op \in InvalidModeForms}

Programs ==
    UNION {[1..n -> Cells] : n \in 0..MaxLen}
        \cup Examples \cup ModalPrograms \cup HighDigitPrograms
        \cup InvalidModePrograms

\* Program::with_io: the snapshot is copied, the pointer starts at 0.
Init ==
    /\ init \in Programs
    /\ memory = init
    /\ instruction_pointer = 0
    /\ status = "Constructed"
    /\ error = NoError
    /\ output = <<>>
    /\ input_log = <<>>
    /\ steps = 0
    /\ last = NoLast
    /\ vm = "program"
    /\ peer = NoPeer

\* Mutant of Start: the call enters the loop without looking at the length of
\* memory.
Start_no_check ==
    /\ vm = "program"
    /\ status = "Constructed"
    /\ status' = "Running"
    /\ UNCHANGED <<memory, instruction_pointer, error, output, input_log,
                   init, steps, last, vm, peer>>

\* Program::run is called: an empty memory returns Ok at once.
Start ==
    /\ vm = "program"
    /\ status = "Constructed"
    /\ status' = IF memory = <<>> THEN "Halted" ELSE "Running"
    /\ UNCHANGED <<memory, instruction_pointer, error, output, input_log,
                   init, steps, last, vm, peer>>

\* One iteration of the loop of Program::run.
Step ==
    /\ vm = "program"
    /\ status = "Running"
    /\ steps < MaxSteps
    /\ \E r \in Iteration(memory, instruction_pointer) :
        /\ memory' = r.memory
        /\ instruction_pointer' = r.ip
        /\ status' = r.status
        /\ error' = r.error
        /\ output' = output \o r.last.out
        /\ input_log' = input_log \o r.last.inp
        /\ last' = [r.last EXCEPT !.jumps = last.jumps
                                    + IF jump_taken(r.last) THEN 1 ELSE 0,
                                  !.overflow = last.overflow
                                    \cup overflow_seen(r.last)]
    /\ steps' = steps + 1
    /\ UNCHANGED <<init, vm, peer>>

Next == Start \/ Step

Spec == Init /\ [][Next]_vars

\* ------------------------------------------- run called again

\* Program::run is called again on an instance whose run has returned: the
\* fields are as the first call left them (run resets nothing), an empty
\* memory returns Ok at once, otherwise the loop is entered.
Rerun ==
    /\ vm = "program"
    /\ status \in {"Halted", "Failed"}
    /\ status' = IF memory = <<>> THEN "HaltedAgain" ELSE "Resumed"
    /\ UNCHANGED <<memory, instruction_pointer, error, output, input_log,
                   init, steps, last, vm, peer>>

\* Where the second call stands after an iteration that ended in `s`.
SecondCall(s) ==
    CASE s = "Running" -> "Resumed"
      [] s = "Halted" -> "HaltedAgain"
      [] s = "Failed" -> "FailedAgain"
      [] s = "Aborted" -> "Aborted"

\* One iteration of the loop of Program::run in the second call.
RerunStep ==
    /\ vm = "program"
    /\ status = "Resumed"
    /\ steps < 2 * MaxSteps
    /\ \E r \in Iteration(memory, instruction_pointer) :
        /\ memory' = r.memory
        /\ instruction_pointer' = r.ip
        /\ status' = SecondCall(r.status)
        /\ error' = r.error
        /\ output' = output \o r.last.out
        /\ input_log' = input_log \o r.last.inp
        /\ last' = r.last
    /\ steps' = steps + 1
    /\ UNCHANGED <<init, vm, peer>>

RerunNext == Start \/ Step \/ Rerun \/ RerunStep

RerunSpec == Init /\ [][RerunNext]_vars

\* ------------------------------------------- two instances of Program

\* The whole of Program::run from (mem, ip) with `fuel` iterations at most:
\* the results it can end in, with the input consumed and the output emitted.
RECURSIVE run_from(_, _, _, _, _)
run_from(mem, ip, inp, out, fuel) ==
    IF fuel = 0 THEN {}
    ELSE UNION {
        IF r.status = "Running"
        THEN run_from(r.memory, r.ip, inp \o r.last.inp, out \o r.last.out,
                      fuel - 1)
        ELSE {[status |-> r.status, memory |-> r.memory, ip |-> r.ip,
               error |-> r.error, input_log |-> inp \o r.last.inp,
               output |-> out \o r.last.out]}
        : r \in Iteration(mem, ip)}

\* Program::with_io(snapshot, ..) followed by Program::run, with no other
\* instance around: the results of runs of MaxSteps iterations at most.
run(snapshot) ==
    IF snapshot = <<>>
    THEN {[status |-> "Halted", memory |-> <<>>, ip |-> 0, error |-> NoError,
           input_log |-> <<>>, output |-> <<>>]}
    ELSE run_from(snapshot, 0, <<>>, <<>>, MaxSteps)

\* Programs whose addition or multiplication leaves the i64 range: at once,
\* or when the input is not 0.
OverflowPrograms ==
    {<<1101, IMax, 1, 5, 99, 0>>,
     <<1102, IMax, 2, 5, 99, 0>>,
     <<3, 7, 101, IMax, 7, 7, 99, 0>>}

\* The snapshots two instances are built from.
PairPrograms == Examples \cup OverflowPrograms

PairInit ==
    /\ init \in PairPrograms
    /\ memory = init
    /\ instruction_pointer = 0
    /\ status = "Constructed"
    /\ error = NoError
    /\ output = <<>>
    /\ input_log = <<>>
    /\ steps = 0
    /\ last = NoLast
    /\ vm = "program"
    /\ peer = NoPeer

\* Mutant of PeerBuild: the first instance works on the caller's array
\* itself, so an instance built from that array later gets the cells the
\* first one has written.
PeerBuild_aliased ==
    /\ vm = "program"
    /\ peer.status = "Absent"
    /\ \E s \in PairPrograms :
        peer' = [NoPeer EXCEPT !.status = "Constructed", !.snapshot = s,
                               !.memory = IF s = init THEN memory ELSE s]
    /\ UNCHANGED <<memory, instruction_pointer, status, error, output,
                   input_log, init, steps, last, vm>>

\* Program::with_io is called a second time, at any moment of the first
\* instance's life, with the same caller's array or with another one: the
\* array is copied, the pointer starts at 0.
PeerBuild ==
    /\ vm = "program"
    /\ peer.status = "Absent"
    /\ \E s \in PairPrograms :
        peer' = [NoPeer EXCEPT !.status = "Constructed", !.snapshot = s,
                               !.memory = s]
    /\ UNCHANGED <<memory, instruction_pointer, status, error, output,
                   input_log, init, steps, last, vm>>

\* Program::run is called on the second instance.
PeerStart ==
    /\ vm = "program"
    /\ peer.status = "Constructed"
    /\ peer' = [peer EXCEPT !.status = IF peer.memory = <<>> THEN "Halted"
                                       ELSE "Running"]
    /\ UNCHANGED <<memory, instruction_pointer, status, error, output,
                   input_log, init, steps, last, vm>>

\* Mutant of PeerStep: the two instances work on one tape, so what the second
\* writes lands in the memory of the first.
PeerStep_shared ==
    /\ vm = "program"
    /\ peer.status = "Running"
    /\ peer.steps < MaxSteps
    /\ \E r \in Iteration(peer.memory, peer.instruction_pointer) :
        /\ peer' = [peer EXCEPT !.memory = r.memory,
                                !.instruction_pointer = r.ip,
                                !.status = r.status,
                                !.error = r.error,
                                !.output = peer.output \o r.last.out,
                                !.input_log = peer.input_log \o r.last.inp,
                                !.last = [r.last EXCEPT !.overflow =
                                            peer.last.overflow
                                                \cup overflow_seen(r.last)],
                                !.steps = peer.steps + 1]
        /\ memory' = IF Len(r.memory) = Len(memory) THEN r.memory ELSE memory
    /\ UNCHANGED <<instruction_pointer, status, error, output, input_log,
                   init, steps, last, vm>>

\* One iteration of the loop of Program::run on the second instance: System
\* is implemented on `self`, so the iteration works on the instance's own
\* fields.
PeerStep ==
    /\ vm = "program"
    /\ peer.status = "Running"
    /\ peer.steps < MaxSteps
    /\ \E r \in Iteration(peer.memory, peer.instruction_pointer) :
        peer' = [peer EXCEPT !.memory = r.memory,
                             !.instruction_pointer = r.ip,
                             !.status = r.status,
                             !.error = r.error,
                             !.output = peer.output \o r.last.out,
                             !.input_log = peer.input_log \o r.last.inp,
                             !.last = [r.last EXCEPT !.overflow =
                                            peer.last.overflow
                                                \cup overflow_seen(r.last)],
                             !.steps = peer.steps + 1]
    /\ UNCHANGED <<memory, instruction_pointer, status, error, output,
                   input_log, init, steps, last, vm>>

PairNext == Start \/ Step \/ PeerBuild \/ PeerStart \/ PeerStep

PairSpec == PairInit /\ [][PairNext]_vars

\* ------------------------------------------- the older Program of mod.rs

\* `u as i64` for a usize u: the same bits read as signed.
AsI64(u) == IF u > IMax THEN u - Modulus ELSE u

\* Program::check_range: whether `address` is in 0..state.len().
check_range(mem, address) == address >= 0 /\ address < Len(mem)

\* mod.rs Error { kind, position }.
LegacyError(kind, position) ==
    [kind |-> kind, arg |-> 0, arg2 |-> 0, address |-> Some(position)]

\* Program::parse_opcode: the families 1, 2, 3, 4 and 99; the error kinds
\* carry no payload.
parse_opcode(value) ==
    LET family == Rem(value, 100)
        p1 == parse_parameter_mode(value, 1)
        p2 == parse_parameter_mode(value, 2)
        two(name) == IF p1.ok /\ p2.ok
                     THEN OkOpcode(name, FALSE, <<p1.mode, p2.mode>>)
                     ELSE ErrOpcode("InvalidParameterMode", 0)
    IN  CASE family = 1 -> two("Addition")
          [] family = 2 -> two("Multiplication")
          [] family = 3 -> OkOpcode("Store", FALSE, <<>>)
          [] family = 4 -> IF p1.ok THEN OkOpcode("Print", FALSE, <<p1.mode>>)
                           ELSE ErrOpcode("InvalidParameterMode", 0)
          [] family = 99 -> OkOpcode("Halt", FALSE, <<>>)
          [] OTHER -> ErrOpcode("InvalidOpcode", 0)

\* What the input and the output callable of run_with_io may return:
\* get_stdin fails with kind Input, print_stdout with kind Output, both at
\* position 0.
InputResults ==
    {[ok |-> TRUE, value |-> v, error |-> NoError] : v \in InputVals}
    \cup {[ok |-> FALSE, value |-> 0, error |-> LegacyError("Input", 0)]}
OutputResults ==
    {[ok |-> TRUE, error |-> NoError],
     [ok |-> FALSE, error |-> LegacyError("Output", 0)]}

\* What next_op returns, with the value it leaves in `pos`.
OpOk(name, pos, a, b, out, inp) ==
    [tag |-> "Ok", op |-> name, pos |-> pos, in1 |-> a, in2 |-> b,
     out |-> out, error |-> NoError, inp |-> inp, io |-> "None"]
OpErr(name, pos, err) ==
    [tag |-> "Err", op |-> name, pos |-> pos, in1 |-> 0, in2 |-> 0,
     out |-> 0, error |-> err, inp |-> <<>>, io |-> "None"]

\* Mutant of propagate: the error of the callable is dropped and the run goes
\* on.
propagate_ignored(r, continued, returned) == continued

\* The `?` after a call of the input or the output callable: Ok goes on, Err
\* is returned to the caller of run_with_io as it is.
propagate(r, continued, returned) == IF r.ok THEN continued ELSE returned

\* Mutant of not_enough_arguments: the error reports the cell the check
\* looked for.
not_enough_arguments_at_cell(mem, pos) ==
    LegacyError("NotEnoughArguments", pos - 1)

\* The error of get_three_args and get_one_arg when the last parameter cell,
\* pos - 1, is outside memory: it reports the last index of memory.
not_enough_arguments(mem, pos) ==
    LegacyError("NotEnoughArguments", Len(mem) - 1)

\* Program::get_three_args with `pos` already advanced by 4: an error, or
\* none.
get_three_args(mem, pos) ==
    IF ~check_range(mem, pos - 1)
    THEN [ok |-> FALSE, error |-> not_enough_arguments(mem, pos)]
    ELSE IF ~check_range(mem, AsUsize(Cell(mem, pos - 1)))
    THEN [ok |-> FALSE, error |-> LegacyError("PositionOutOfRange", pos - 1)]
    ELSE [ok |-> TRUE, error |-> NoError]

\* Program::get_one_arg with `pos` already advanced by 2.
get_one_arg(mem, pos) ==
    IF ~check_range(mem, pos - 1)
    THEN [ok |-> FALSE, error |-> not_enough_arguments(mem, pos)]
    ELSE [ok |-> TRUE, error |-> NoError]

\* One input of resolve_input_args / resolve_input_arg: a usize under a mode.
resolve_input(mem, mode, in) ==
    IF mode = Position
    THEN IF check_range(mem, in)
         THEN [ok |-> TRUE, value |-> Cell(mem, in)]
         ELSE [ok |-> FALSE, value |-> 0]
    ELSE [ok |-> TRUE, value |-> AsI64(in)]

\* Program::next_op for Addition and Multiplication.
next_op_binary(mem, pos0, opcode) ==
    LET pos == pos0 + 4
        args == get_three_args(mem, pos)
    IN  IF ~args.ok THEN {OpErr(opcode.name, pos, args.error)}
        ELSE
        LET i1 == resolve_input(mem, opcode.modes[1],
                                AsUsize(Cell(mem, pos - 3)))
            i2 == resolve_input(mem, opcode.modes[2],
                                AsUsize(Cell(mem, pos - 2)))
            out == AsUsize(Cell(mem, pos - 1))
        IN  IF ~i1.ok
            THEN {OpErr(opcode.name, pos,
                        LegacyError("PositionOutOfRange", pos - 4 + 1))}
            ELSE IF ~i2.ok
            THEN {OpErr(opcode.name, pos,
                        LegacyError("PositionOutOfRange", pos - 4 + 2))}
            ELSE {OpOk(opcode.name, pos, i1.value, i2.value, out, <<>>)}

\* Program::next_op for Store: the input callable is called once the address
\* is validated.
next_op_store(mem, pos0) ==
    LET pos == pos0 + 2
        args == get_one_arg(mem, pos)
    IN  IF ~args.ok THEN {OpErr("Store", pos, args.error)}
        ELSE
        LET address == AsUsize(Cell(mem, pos - 1))
        IN  IF ~check_range(mem, address)
            THEN {OpErr("Store", pos,
                        LegacyError("PositionOutOfRange", pos - 1))}
            ELSE {propagate(r,
                      [OpOk("Store", pos, r.value, 0, address, <<r.value>>)
                          EXCEPT !.io = IF r.ok THEN "InputOk"
                                        ELSE "InputFailed"],
                      [OpErr("Store", pos, r.error)
                          EXCEPT !.io = "InputFailed"])
                  : r \in InputResults}

\* Program::next_op for Print.
next_op_print(mem, pos0, opcode) ==
    LET pos == pos0 + 2
        args == get_one_arg(mem, pos)
    IN  IF ~args.ok THEN {OpErr("Print", pos, args.error)}
        ELSE
        LET v == resolve_input(mem, opcode.modes[1],
                               AsUsize(Cell(mem, pos - 1)))
        IN  IF ~v.ok
            THEN {OpErr("Print", pos,
                        LegacyError("PositionOutOfRange", pos - 1))}
            ELSE {OpOk("Print", pos, v.value, 0, 0, <<>>)}

\* Program::next_op from (state, pos): `self.state[*pos]` indexes memory.
next_op(mem, pos) ==
    LET opcode == parse_opcode(Cell(mem, pos))
    IN  IF ~opcode.ok
        THEN {OpErr("None", pos, LegacyError(opcode.kind, pos))}
        ELSE CASE opcode.name \in {"Addition", "Multiplication"} ->
                    next_op_binary(mem, pos, opcode)
               [] opcode.name = "Store" -> next_op_store(mem, pos)
               [] opcode.name = "Print" -> next_op_print(mem, pos, opcode)
               [] opcode.name = "Halt" -> {OpOk("Halt", 0, 0, 0, 0, <<>>)}

\* One iteration of the loop of run_with_io from (state, pos): next_op, then
\* the effect of the Operation it returned.
LegacyIteration(mem, pos) ==
    LET base == [NoLast EXCEPT !.address = pos, !.before = mem]
    IN
    IF pos >= Len(mem)
    THEN {[status |-> "Aborted", memory |-> mem, ip |-> pos,
           error |-> NoError,
           last |-> [base EXCEPT !.tag = "Panic",
                                 !.kind = "IndexOutOfBounds"]]}
    ELSE
    UNION {
      LET l == [base EXCEPT !.raw = Cell(mem, pos), !.opcode = op.op,
                            !.inp = op.inp, !.io = op.io]
          failed(err) ==
              [status |-> "Failed", memory |-> mem, ip |-> op.pos,
               error |-> err,
               last |-> [l EXCEPT !.tag = "Err", !.kind = err.kind]]
          wrote(value) ==
              [status |-> "Running",
               memory |-> [mem EXCEPT ![op.out + 1] = value],
               ip |-> op.pos, error |-> NoError,
               last |-> [l EXCEPT !.tag = "Ok", !.next = op.pos,
                                  !.writes = <<op.out>>]]
          computed(results) ==
              {IF r.panic
               THEN [status |-> "Aborted", memory |-> mem, ip |-> op.pos,
                     error |-> NoError,
                     last |-> [l EXCEPT !.tag = "Panic",
                                        !.kind = "ArithmeticOverflow"]]
               ELSE wrote(r.value)
               : r \in results}
      IN  IF op.tag = "Err" THEN {failed(op.error)}
          ELSE CASE op.op = "Halt" ->
                      {[status |-> "Halted", memory |-> mem, ip |-> op.pos,
                        error |-> NoError,
                        last |-> [l EXCEPT !.tag = "Halt"]]}
                 [] op.op = "Addition" -> computed(Sum(op.in1, op.in2))
                 [] op.op = "Multiplication" ->
                      computed(Product(op.in1, op.in2))
                 [] op.op = "Store" -> {wrote(op.in1)}
                 [] op.op = "Print" ->
                      {LET called ==
                               IF r.ok THEN "OutputOk" ELSE "OutputFailed"
                       IN  propagate(r,
                               [status |-> "Running", memory |-> mem,
                                ip |-> op.pos, error |-> NoError,
                                last |-> [l EXCEPT !.tag = "Ok",
                                                   !.next = op.pos,
                                                   !.out = <<op.in1>>,
                                                   !.io = called]],
                               [failed(r.error)
                                   EXCEPT !.last.io = "OutputFailed"])
                       : r \in OutputResults}
      : op \in next_op(mem, pos)}

\* Cell values the initial states of the older Program are drawn from: the
\* values of Cells without the opcodes it does not know.
LegacyCells == Cells \ {5, 6, 7, 1105}

LegacyPrograms == UNION {[1..n -> LegacyCells] : n \in 0..MaxLen} \cup Examples

\* Program::new: the Vec handed over is the state.
LegacyInit ==
    /\ init \in LegacyPrograms
    /\ memory = init
    /\ instruction_pointer = 0
    /\ status = "Constructed"
    /\ error = NoError
    /\ output = <<>>
    /\ input_log = <<>>
    /\ steps = 0
    /\ last = NoLast
    /\ vm = "legacy"
    /\ peer = NoPeer

\* run_with_io is called: an empty state returns Ok at once.
LegacyStart ==
    /\ vm = "legacy"
    /\ status = "Constructed"
    /\ status' = IF memory = <<>> THEN "Halted" ELSE "Running"
    /\ UNCHANGED <<memory, instruction_pointer, error, output, input_log,
                   init, steps, last, vm, peer>>

\* One iteration of the loop of run_with_io.
LegacyStep ==
    /\ vm = "legacy"
    /\ status = "Running"
    /\ steps < MaxSteps
    /\ \E r \in LegacyIteration(memory, instruction_pointer) :
        /\ memory' = r.memory
        /\ instruction_pointer' = r.ip
        /\ status' = r.status
        /\ error' = r.error
        /\ output' = output \o r.last.out
        /\ input_log' = input_log \o r.last.inp
        /\ last' = r.last
    /\ steps' = steps + 1
    /\ UNCHANGED <<init, vm, peer>>

LegacyNext == LegacyStart \/ LegacyStep

LegacySpec == LegacyInit /\ [][LegacyNext]_vars

\* Either Program, chosen at construction.
BothInit == Init \/ LegacyInit

BothNext == Next \/ LegacyNext

BothSpec == BothInit /\ [][BothNext]_vars

\* ------------------------------------------------ the decoder on its own

\* The values Opcode::parse is called with: every machine integer.
RawValues == IMin..IMax

\* A caller holds one raw value and has not decoded it yet.
DecodeInit ==
    /\ init \in {<<raw>> : raw \in RawValues}
    /\ memory = init
    /\ instruction_pointer = 0
    /\ status = "Constructed"
    /\ error = NoError
    /\ output = <<>>
    /\ input_log = <<>>
    /\ steps = 0
    /\ last = NoLast
    /\ vm = "decoder"
    /\ peer = NoPeer

\* Opcode::parse(raw) is called and returns; `error` holds the bare ErrorKind
\* of an Err, to which no address is attached.
Decode ==
    /\ vm = "decoder"
    /\ status = "Constructed"
    /\ LET raw == memory[1]
           opcode == parse(raw)
       IN  /\ status' = IF ~opcode.ok /\ opcode.kind = "Panic"
                        THEN "Aborted" ELSE "Decoded"
           /\ error' = IF opcode.ok \/ opcode.kind = "Panic" THEN NoError
                       ELSE [kind |-> opcode.kind, arg |-> opcode.arg,
                             arg2 |-> 0, address |-> None]
           /\ last' = [NoLast EXCEPT !.raw = raw, !.opcode = opcode.name,
                                     !.cmp = opcode.cmp,
                                     !.modes = opcode.modes,
                                     !.tag = IF opcode.ok THEN "Decoded"
                                             ELSE IF opcode.kind = "Panic"
                                             THEN "Panic" ELSE "DecodeErr",
                                     !.kind = opcode.kind]
    /\ UNCHANGED <<memory, instruction_pointer, output, input_log, init,
                   steps, vm, peer>>

DecodeNext == Decode

DecodeSpec == DecodeInit /\ [][DecodeNext]_vars

\* The decoder called on its own, or by the loop of Program::run.
DecodeRunInit == DecodeInit \/ Init

DecodeRunNext == DecodeNext \/ Next

DecodeRunSpec == DecodeRunInit /\ [][DecodeRunNext]_vars

\* ------------------------------------- process_parameters on its own

\* The longest list of read modes handed to process_parameters.
MaxModes == 3

\* The parameter types process_parameters is called with: those of the
\* executors and those of the tests of the module.
ParamTypeLists ==
    {<<Read, Read, Write>>, <<Read, Read>>, <<Read>>, <<Write>>,
     <<Read, Write, Read, Write>>}

ReadModeLists == UNION {[1..n -> {Position, Immediate}] : n \in 0..MaxModes}

\* Cells of the memories process_parameters is called on: addresses within a
\* short memory and the out-of-range address of the tests.
ResolveCells == {0, 2, 5555}

ResolveMemories == UNION {[1..n -> ResolveCells] : n \in 0..MaxLen}

\* A caller holds a memory, an instruction pointer, a list of parameter types
\* and a list of read modes, and has not called process_parameters yet.
ResolveInit ==
    /\ init \in ResolveMemories
    /\ memory = init
    /\ instruction_pointer \in {0, 1}
    /\ status = "Constructed"
    /\ error = NoError
    /\ output = <<>>
    /\ input_log = <<>>
    /\ steps = 0
    /\ \E types \in ParamTypeLists, modes \in ReadModeLists :
          last = [NoLast EXCEPT !.types = types, !.modes = modes,
                                !.address = instruction_pointer,
                                !.before = init]
    /\ vm = "resolver"
    /\ peer = NoPeer

\* process_parameters(system, param_types, read_modes) is called and returns
\* or aborts; `error` holds the bare ErrorKind of an Err.
Resolve ==
    /\ vm = "resolver"
    /\ status = "Constructed"
    /\ LET pp == process_parameters(memory, instruction_pointer, last.types,
                                    last.modes)
       IN  /\ status' = IF pp.tag = "Panic" THEN "Aborted" ELSE "Resolved"
           /\ error' = IF pp.tag = "Err"
                       THEN [kind |-> pp.kind, arg |-> pp.arg,
                             arg2 |-> pp.arg2, address |-> None]
                       ELSE NoError
           /\ last' = [last EXCEPT !.tag = pp.tag, !.kind = pp.kind,
                                   !.resolved = (pp.tag = "Ok"),
                                   !.read_values = pp.read_values,
                                   !.write_addrs = pp.write_addrs,
                                   !.reads = pp.reads]
    /\ UNCHANGED <<memory, instruction_pointer, output, input_log, init,
                   steps, vm, peer>>

ResolveNext == Resolve

ResolveSpec == ResolveInit /\ [][ResolveNext]_vars

\* ------------------------------------- the System operations on their own

\* Mutant of write_instruction_pointer: an address equal to the length of
\* memory is accepted, as the assertion of the run loop accepts it.
write_instruction_pointer_to_len(mem, ip, address) ==
    IF address > get_memory_len(mem)
    THEN [tag |-> "Panic", ip |-> ip]
    ELSE [tag |-> "Ok", ip |-> address]

\* System::write_instruction_pointer for Program: `self.memory[address]` is
\* evaluated first and aborts for an address outside memory, before the
\* pointer is assigned.
write_instruction_pointer(mem, ip, address) ==
    IF address >= get_memory_len(mem)
    THEN [tag |-> "Panic", ip |-> ip]
    ELSE [tag |-> "Ok", ip |-> address]

\* Memories of the Programs the System operations are called on.
SystemMemories == UNION {[1..n -> {3, 4, 5}] : n \in 0..MaxLen}

\* The addresses handed to write_instruction_pointer: every address of the
\* longest memory, its length and the address after it.
SystemAddresses == 0..(MaxLen + 1)

\* A Program built by with_io whose run is not called.
SystemInit ==
    /\ init \in SystemMemories
    /\ memory = init
    /\ instruction_pointer = 0
    /\ status = "Constructed"
    /\ error = NoError
    /\ output = <<>>
    /\ input_log = <<>>
    /\ steps = 0
    /\ last = NoLast
    /\ vm = "system"
    /\ peer = NoPeer

\* A caller calls write_instruction_pointer(address) on the Program; `last`
\* keeps the pointer before the call in `address` and the requested address
\* in `next`.
WriteInstructionPointer ==
    /\ vm = "system"
    /\ status # "Aborted"
    /\ \E address \in SystemAddresses :
        LET r == write_instruction_pointer(memory, instruction_pointer,
                                           address)
        IN  /\ instruction_pointer' = r.ip
            /\ status' = IF r.tag = "Panic" THEN "Aborted" ELSE "Constructed"
            /\ last' = [NoLast EXCEPT !.tag = r.tag,
                                      !.address = instruction_pointer,
                                      !.next = address,
                                      !.before = memory,
                                      !.kind = IF r.tag = "Panic"
                                               THEN "IndexOutOfBounds"
                                               ELSE "None"]
    /\ UNCHANGED <<memory, error, output, input_log, init, steps, vm, peer>>

SystemNext == WriteInstructionPointer

SystemSpec == SystemInit /\ [][SystemNext]_vars

\* ------------------------------------------- the Password of day04/mod.rs

LOWER_BOUND == 307237
UPPER_BOUND == 769058

\* char::is_ascii_digit and char::to_digit(10) on the characters used here;
\* a character is a string of length one.
AsciiDigits == {"0", "1", "2", "3", "4", "5", "6", "7", "8", "9"}
is_ascii_digit(c) == c \in AsciiDigits
to_digit(c) ==
    CASE c = "0" -> 0 [] c = "1" -> 1 [] c = "2" -> 2 [] c = "3" -> 3
      [] c = "4" -> 4 [] c = "5" -> 5 [] c = "6" -> 6 [] c = "7" -> 7
      [] c = "8" -> 8 [] c = "9" -> 9

\* value.parse::<u32>() on a string of ASCII digits, from the first `n`
\* characters.
RECURSIVE parse_u32(_, _)
parse_u32(value, n) ==
    IF n = 0 THEN 0
    ELSE 10 * parse_u32(value, n - 1) + to_digit(value[n])

\* A range of u32 as the tests build them: `start..end` or `start..=end`.
Range(start, end, inclusive) ==
    [start |-> start, end |-> end, inclusive |-> inclusive]

\* RangeBounds::contains
contains(range, number) ==
    /\ number >= range.start
    /\ IF range.inclusive THEN number <= range.end ELSE number < range.end

\* The first loop of new_with_range from character `i` on: `cch` counts the
\* characters of the current run, and the loop is left as soon as a run of
\* two has ended.
RECURSIVE count_run(_, _, _, _)
count_run(value, i, cch, prev) ==
    IF i > Len(value) THEN cch
    ELSE IF value[i] = prev THEN count_run(value, i + 1, cch + 1, value[i])
    ELSE IF cch = 2 THEN cch
    ELSE count_run(value, i + 1, 1, value[i])

\* The second loop of new_with_range from character `i` on: whether a digit
\* is smaller than the one before it; `prev` starts at 0.
RECURSIVE digits_decrease(_, _, _)
digits_decrease(value, i, prev) ==
    IF i > Len(value) THEN FALSE
    ELSE IF to_digit(value[i]) < prev THEN TRUE
    ELSE digits_decrease(value, i + 1, to_digit(value[i]))

PasswordOk(value) == [ok |-> TRUE, kind |-> "None", value |-> value]
PasswordErr(kind) == [ok |-> FALSE, kind |-> kind, value |-> <<>>]

\* Mutant of new_with_range: the length is tested before the characters.
new_with_range_length_first(value, range) ==
    IF Len(value) # 6 THEN PasswordErr("NotSixDigits")
    ELSE IF ~(\A i \in 1..Len(value) : is_ascii_digit(value[i]))
    THEN PasswordErr("NotANumber")
    ELSE IF ~contains(range, parse_u32(value, Len(value)))
    THEN PasswordErr("OutOfRange")
    ELSE IF count_run(value, 1, 0, "x") # 2 THEN PasswordErr("NoDoubles")
    ELSE IF digits_decrease(value, 1, 0) THEN PasswordErr("DigitsDecrease")
    ELSE PasswordOk(value)

\* Password::new_with_range
new_with_range(value, range) ==
    IF ~(\A i \in 1..Len(value) : is_ascii_digit(value[i]))
    THEN PasswordErr("NotANumber")
    ELSE IF Len(value) # 6 THEN PasswordErr("NotSixDigits")
    ELSE IF ~contains(range, parse_u32(value, Len(value)))
    THEN PasswordErr("OutOfRange")
    ELSE IF count_run(value, 1, 0, "x") # 2 THEN PasswordErr("NoDoubles")
    ELSE IF digits_decrease(value, 1, 0) THEN PasswordErr("DigitsDecrease")
    ELSE PasswordOk(value)

\* The longest string handed to new_with_range.
MaxChars == 7

\* Characters of the strings: three digits and a letter.
PasswordChars == {"0", "1", "4", "z"}

PasswordStrings == UNION {[1..n -> PasswordChars] : n \in 0..MaxChars}

\* The ranges of the tests and the range of Password::new.
PasswordRanges ==
    {Range(0, 4, FALSE), Range(0, 4, TRUE), Range(100000, 200000, FALSE),
     Range(LOWER_BOUND, UPPER_BOUND, TRUE)}

\* A caller holds a string and a range: `init` is the pair of arguments.
PasswordInit ==
    /\ init \in [value : PasswordStrings, range : PasswordRanges]
    /\ memory = <<>>
    /\ instruction_pointer = 0
    /\ status = "Constructed"
    /\ error = NoError
    /\ output = <<>>
    /\ input_log = <<>>
    /\ steps = 0
    /\ last = NoLast
    /\ vm = "password"
    /\ peer = NoPeer

\* Password::new_with_range(value, range) is called and returns: `memory`
\* holds the characters of Password::value of an Ok, `error` the kind of an
\* Err.
NewPassword ==
    /\ vm = "password"
    /\ status = "Constructed"
    /\ LET r == new_with_range(init.value, init.range)
       IN  /\ status' = IF r.ok THEN "Ok" ELSE "Err"
           /\ memory' = r.value
           /\ error' = [NoError EXCEPT !.kind = r.kind]
    /\ UNCHANGED <<instruction_pointer, output, input_log, init, steps, last,
                   vm, peer>>

PasswordNext == NewPassword

PasswordSpec == PasswordInit /\ [][PasswordNext]_vars

\* ------------------------------------------------- vocabulary of the claims

\* The latest iteration dispatched an executor.
Executed == last.tag \in {"Ok", "Err", "Panic"}

\* INSTRUCTION_SIZE of the executor of each opcode.
Size(name) ==
    CASE name \in {"Addition", "Multiplication", "LessThan"} -> 4
      [] name = "JumpIf" -> 3
      [] name \in {"Print", "Store"} -> 2
      [] OTHER -> 1

HasWrite == last.opcode \in {"Addition", "Multiplication", "LessThan", "Store"}

\* The latest instruction lay entirely within memory.
InBounds == last.address + Size(last.opcode) <= Len(last.before)

\* The content, before the latest instruction, of its k-th parameter cell.
RawParam(k) == last.before[last.address + k + 1]

\* The k-th read parameter of the latest instruction needs no dereference or
\* holds an address within memory.
ReadFine(k) ==
    \/ last.modes[k] = Immediate
    \/ AsUsize(RawParam(k)) < Len(last.before)

PositionReads == Cardinality({k \in 1..Len(last.modes) : last.modes[k] = Position})

\* ------------------------------------------------------------------ claims

\* C1: a run ends only by returning Ok or a typed Error; no step indexes
\* memory out of bounds or aborts in another way.
C1_NoAbort == status # "Aborted"

\* C2: a Position-mode read parameter holding address a resolves to memory[a]
\* when a < len(memory) and fails with AddressOutOfRange(a) for every
\* a >= len(memory), a = len(memory) included; an Immediate-mode read
\* parameter resolves to the raw cell value.
C2_ReadResolution ==
    (Executed /\ InBounds) =>
        \A k \in 1..Len(last.modes) :
            (\A j \in 1..(k - 1) : ReadFine(j)) =>
                LET a == AsUsize(RawParam(k))
                IN  IF last.modes[k] = Immediate
                    THEN last.resolved => last.read_values[k] = RawParam(k)
                    ELSE IF a < Len(last.before)
                    THEN last.resolved =>
                            last.read_values[k] = last.before[a + 1]
                    ELSE /\ status = "Failed"
                         /\ error.kind = "AddressOutOfRange"
                         /\ error.arg = a

\* C3: a write parameter holding address a yields a as the write address when
\* a < len(memory) and fails with AddressOutOfRange(a) for every
\* a >= len(memory), a = len(memory) included; the cell at a is not read
\* while the parameter is resolved.
C3_WriteResolution ==
    (Executed /\ HasWrite /\ InBounds
              /\ \A j \in 1..Len(last.modes) : ReadFine(j)) =>
        LET a == AsUsize(RawParam(Size(last.opcode) - 1))
        IN  /\ Len(last.reads) = Size(last.opcode) - 1 + PositionReads
            /\ IF a < Len(last.before)
               THEN last.resolved /\ last.write_addrs = <<a>>
               ELSE /\ status = "Failed"
                    /\ error.kind = "AddressOutOfRange"
                    /\ error.arg = a

\* C4: a jump taken to a target greater than len(memory) completes without
\* error; the run goes on to the next decode/resolve cycle, which is where
\* the target is found out of range.
C4_JumpDeferred ==
    (last.opcode = "JumpIf" /\ last.tag = "Ok"
                            /\ last.next > Len(last.before)) =>
        status = "Running"

\* C5: in every reachable state 0 <= instruction_pointer <= len(memory).
C5_PointerInRange ==
    instruction_pointer >= 0 /\ instruction_pointer <= Len(memory)

\* C6: after an instruction executed successfully (a taken jump included), an
\* instruction pointer equal to len(memory) makes run return Ok at once: the
\* loop never decodes with the pointer at len(memory).
C6_EndOfTape ==
    /\ (last.tag = "Ok" /\ instruction_pointer = Len(memory)) =>
            status = "Halted"
    /\ status = "Running" => instruction_pointer < Len(memory)

\* A taken jump landed exactly on len(memory) and the run returned Ok.
C6_Witness ==
    /\ status = "Halted"
    /\ last.opcode = "JumpIf"
    /\ last.tag = "Ok"
    /\ last.next # last.address + 3
    /\ instruction_pointer = Len(memory)

\* C7: every error run returns carries the address of the instruction that
\* was executing, for decode errors and resolver errors alike;
\* [1,5,6,7,5555,3,7,0] fails with InvalidOpcode at 4 and
\* [1,5555,6,7,99,3,7,0] with AddressOutOfRange(5555) at 0.
C7_ErrorAddress ==
    /\ status = "Failed" =>
        /\ error.address = Some(last.address)
        /\ instruction_pointer = last.address
        /\ error.kind = last.kind
    /\ (status = "Failed" /\ init = <<1, 5, 6, 7, 5555, 3, 7, 0>>) =>
        /\ error.kind = "InvalidOpcode"
        /\ error.address = Some(4)
    /\ (status = "Failed" /\ init = <<1, 5555, 6, 7, 99, 3, 7, 0>>) =>
        /\ error.kind = "AddressOutOfRange"
        /\ error.arg = 5555
        /\ error.address = Some(0)

\* The second instruction of [1,5,6,7,5555,3,7,0] failed to decode.
C7_Witness ==
    /\ status = "Failed"
    /\ init = <<1, 5, 6, 7, 5555, 3, 7, 0>>
    /\ last.tag = "DecodeErr"
    /\ last.address = 4

\* C8: when a run fails, memory is exactly what it was right before the
\* failing instruction: earlier writes persist and the failing instruction
\* wrote nothing.
C8_NoRollback ==
    status = "Failed" => (memory = last.before /\ last.writes = <<>>)

\* A run failed in a resolver after an earlier instruction changed memory.
C8_Witness ==
    /\ status = "Failed"
    /\ last.tag = "Err"
    /\ memory # init

\* C9: an instruction that does not lie entirely within memory fails with
\* NotEnoughParameters before any operand is read, whatever its parameter
\* cells hold; one whose last parameter cell is the last memory cell is not
\* rejected by this check.
C9_NotEnoughParameters ==
    Executed =>
        IF InBounds
        THEN last.kind # "NotEnoughParameters"
        ELSE /\ status = "Failed"
             /\ error.kind = "NotEnoughParameters"
             /\ last.reads = <<>>

\* An Addition cut short by the end of memory, whose first parameter cell is
\* in memory and holds an address outside it, failed NotEnoughParameters.
C9_Witness ==
    /\ status = "Failed"
    /\ error.kind = "NotEnoughParameters"
    /\ last.opcode = "Addition"
    /\ Len(last.before) >= last.address + 2
    /\ AsUsize(RawParam(1)) > Len(last.before)

\* C10 (as stated): when a run fails because an instruction would read past
\* the end of the tape, the address in the returned error is the last valid
\* memory index, len(memory) - 1.
C10_LastIndex ==
    (status = "Failed"
        /\ error.kind \in {"NotEnoughParameters", "NotEnoughArguments"}) =>
        error.address = Some(Len(memory) - 1)

\* C10 (amended): Program::run of program.rs reports NotEnoughParameters at
\* the address of the instruction that runs past the end; run_with_io of
\* mod.rs reports NotEnoughArguments at len(memory) - 1.
C10_ReportedAddress ==
    /\ (status = "Failed" /\ error.kind = "NotEnoughParameters") =>
            (vm = "program" /\ error.address = Some(last.address))
    /\ (status = "Failed" /\ error.kind = "NotEnoughArguments") =>
            (vm = "legacy" /\ error.address = Some(Len(memory) - 1))
    /\ (Executed /\ vm = "program" /\ ~InBounds) =>
            (status = "Failed" /\ error.kind = "NotEnoughParameters")
    /\ (vm = "legacy" /\ last.tag # "None"
                      /\ last.opcode \in {"Addition", "Multiplication",
                                          "Store", "Print"}
                      /\ ~InBounds) =>
            (status = "Failed" /\ error.kind = "NotEnoughArguments")

\* Program::run failed on an instruction that runs past the end and starts
\* neither at 0 nor at the last cell.
C10_Witness ==
    /\ vm = "program"
    /\ status = "Failed"
    /\ error.kind = "NotEnoughParameters"
    /\ last.address > 0
    /\ last.address < Len(memory) - 1

\* ------------------------------------------------ claims about the decoder

\* Opcode::parse(raw) has returned.
Parsed == vm = "decoder" /\ status = "Decoded"

\* raw mod 100 as `%` computes it: the sign follows raw.
Family(raw) == IF raw >= 0 THEN raw % 100 ELSE -((-raw) % 100)

\* The opcode each family number names; JumpIfTrue and JumpIfFalse are
\* Opcode::JumpIf with cmp true and false.
Families == {1, 2, 3, 4, 5, 6, 7, 99}
FamilyName(f) ==
    CASE f = 1 -> "Addition"
      [] f = 2 -> "Multiplication"
      [] f = 3 -> "Store"
      [] f = 4 -> "Print"
      [] f \in {5, 6} -> "JumpIf"
      [] f = 7 -> "LessThan"
      [] f = 99 -> "Halt"

\* The decimal digit of a non-negative raw at place 10^p.
Digit(raw, p) == (raw \div (10 ^ p)) % 10

\* The number of read parameters of each family.
ReadParams(f) ==
    CASE f \in {1, 2, 5, 6, 7} -> 2
      [] f = 4 -> 1
      [] OTHER -> 0

BadModes(raw) ==
    {k \in 0..(ReadParams(Family(raw)) - 1) : Digit(raw, k + 2) \notin {0, 1}}

\* raw is of a family with read parameters.
HasModes(raw) == raw >= 0 /\ ReadParams(Family(raw)) > 0

ModeOfDigit(d) == IF d = 0 THEN Position ELSE Immediate

\* C12: for a raw value whose family has N read parameters, the mode decoded
\* for the k-th read parameter (k from 0) is decided by the decimal digit of
\* raw at place 10^(k+2) alone, 0 giving Position and 1 Immediate, whatever
\* the other digits of raw are: when every read parameter's digit is 0 or 1
\* the value decodes, each mode following its own digit.
C12_ModeByDigit ==
    (Parsed /\ HasModes(last.raw) /\ BadModes(last.raw) = {}) =>
        /\ last.tag = "Decoded"
        /\ Len(last.modes) = ReadParams(Family(last.raw))
        /\ \A k \in 0..(Len(last.modes) - 1) :
              last.modes[k + 1] = ModeOfDigit(Digit(last.raw, k + 2))

C14_Total ==
    (vm = "decoder" /\ status # "Constructed") =>
        /\ status = "Decoded"
        /\ \/ last.tag = "Decoded" /\ error = NoError
           \/ /\ last.tag = "DecodeErr"
              /\ error.kind \in {"InvalidOpcode", "InvalidParameterMode"}

\* The smallest machine integer has been decoded.
C14_Witness ==
    /\ Parsed
    /\ last.raw = IMin
    /\ last.tag = "DecodeErr"

\* ---------------------------------------------- claims about the executors

\* The value, before the latest instruction, of its k-th read parameter: the
\* raw cell in Immediate mode, the cell it addresses in Position mode.
Operand(k) ==
    IF last.modes[k] = Immediate THEN RawParam(k)
    ELSE last.before[AsUsize(RawParam(k)) + 1]

\* The address held, before the latest instruction, by its write parameter.
WriteAddress == AsUsize(RawParam(Size(last.opcode) - 1))

\* The latest instruction lay within memory and each of its parameters
\* resolves: read addresses and the write address are below len(memory).
Resolvable ==
    /\ vm = "program"
    /\ Executed
    /\ InBounds
    /\ \A k \in 1..Len(last.modes) : ReadFine(k)
    /\ HasWrite => WriteAddress < Len(last.before)

InI64(x) == x >= IMin /\ x <= IMax

C16_LessThan ==
    /\ (Resolvable /\ last.opcode = "LessThan") =>
         /\ last.tag = "Ok"
         /\ memory = [last.before EXCEPT ![WriteAddress + 1] =
                          IF Operand(1) < Operand(2) THEN 1 ELSE 0]
         /\ instruction_pointer = last.address + 4
    /\ (init = <<1007, 5, 88, 6, 99, 1, -1>> /\ status = "Halted") =>
         memory = <<1007, 5, 88, 6, 99, 1, 1>>
    /\ (init = <<107, 88, 5, 6, 99, 88, -1>> /\ status = "Halted") =>
         memory = <<107, 88, 5, 6, 99, 88, 0>>

\* A LessThan compared two equal operands and wrote 0.
C16_Witness ==
    /\ init = <<7, 5, 6, 7, 99, 2, 2, -1>>
    /\ last.opcode = "LessThan"
    /\ last.tag = "Ok"
    /\ Operand(1) = Operand(2)
    /\ memory = <<7, 5, 6, 7, 99, 2, 2, 0>>
    /\ instruction_pointer = 4

\* The latest instruction is a jump whose operands resolve.
IsJump == Resolvable /\ last.opcode = "JumpIf"

\* Whether the latest jump is taken: family 5 jumps on a non-zero first
\* operand, family 6 on a zero one.
JumpTaken ==
    IF Family(last.raw) = 5 THEN Operand(1) # 0 ELSE Operand(1) = 0

\* The second operand taken as an address when the jump is taken, the cell
\* after the instruction otherwise.
JumpTarget ==
    IF JumpTaken THEN AsUsize(Operand(2)) ELSE last.address + 3

\* C17: JumpIfTrue at ip with operands r0, r1 makes the next instruction
\* pointer r1 when r0 # 0 and ip + 3 otherwise, JumpIfFalse makes it r1 when
\* r0 = 0 and ip + 3 otherwise; in every mode combination memory is left as
\* it was, and after a taken jump the next instruction decoded is the one at
\* r1.
C17_Jump ==
    [][/\ IsJump' =>
            /\ last'.tag = "Ok"
            /\ instruction_pointer' = JumpTarget'
            /\ memory' = memory
       /\ (IsJump /\ JumpTaken /\ steps' = steps + 1) =>
            /\ last'.address = JumpTarget
            /\ last'.raw = memory[JumpTarget + 1]
       /\ (init \in {<<1005, 5, 4, 5555, 99, 1>>, <<1106, 0, 4, 5555, 99>>,
                     <<5, 5, 6, 5555, 99, 1, 4>>, <<6, 4, 5, 99, 1, 5555>>}
              /\ steps' = steps + 1 /\ steps = 1) =>
            status' = "Halted" /\ memory' = init]_vars

\* After a jump taken in Immediate mode to address 4, the instruction decoded
\* next was the Halt at 4.
C17_Witness ==
    /\ init = <<1005, 5, 4, 5555, 99, 1>>
    /\ steps = 2
    /\ last.address = 4
    /\ last.tag = "Halt"
    /\ status = "Halted"

\* One iteration of the loop of Program::run is taken.
Iterates == vm = "program" /\ steps' = steps + 1

\* C18: Store at ip with a valid write address w consumes exactly one value
\* v from the input source, sets memory[w] to v, changes no other cell, emits
\* nothing and makes the next instruction pointer ip + 2; [3,3,99,0] with
\* input 77 ends as [3,3,99,77].
C18_Store ==
    [][/\ (Iterates /\ Resolvable' /\ last'.opcode = "Store") =>
            /\ last'.tag = "Ok"
            /\ \E v \in InputVals :
                  /\ input_log' = Append(input_log, v)
                  /\ memory' = [memory EXCEPT ![WriteAddress' + 1] = v]
            /\ output' = output
            /\ instruction_pointer' = instruction_pointer + 2
       /\ (init' = <<3, 3, 99, 0>> /\ input_log' = <<77>>
              /\ status' = "Halted") =>
            memory' = <<3, 3, 99, 77>>]_vars

\* [3,3,99,0] read 77 and halted as [3,3,99,77].
C18_Witness ==
    /\ init = <<3, 3, 99, 0>>
    /\ input_log = <<77>>
    /\ status = "Halted"
    /\ memory = <<3, 3, 99, 77>>
    /\ output = <<>>

\* C19: Print at ip emits the resolved value of its read parameter, memory[a]
\* in Position mode and the raw cell in Immediate mode, to the output sink
\* exactly once, leaves every memory cell unchanged, consumes no input and
\* makes the next instruction pointer ip + 2.
C19_Print ==
    [][/\ (Iterates /\ Resolvable' /\ last'.opcode = "Print") =>
            /\ last'.tag = "Ok"
            /\ output' = Append(output, Operand(1)')
            /\ memory' = memory
            /\ input_log' = input_log
            /\ instruction_pointer' = instruction_pointer + 2
       /\ (init' = <<4, 3, 99, 77>> /\ status' = "Halted") =>
            output' = <<77>> /\ memory' = init']_vars

\* [4,3,99,77] emitted 77, the cell its parameter addresses, and nothing
\* else.
C19_Witness ==
    /\ init = <<4, 3, 99, 77>>
    /\ last.opcode = "Print"
    /\ last.modes = <<Position>>
    /\ output = <<77>>
    /\ memory = init
    /\ instruction_pointer = 2

\* C20: decoding Halt at any instruction pointer ends the run with Ok at
\* once: memory is unchanged, no input is read and nothing is emitted, and no
\* cell after the Halt is decoded or executed; [99,1101,10,20,0] ends
\* unchanged.
C20_Halt ==
    [][/\ (Iterates /\ status = "Running"
              /\ Family(memory[instruction_pointer + 1]) = 99) =>
            /\ status' = "Halted"
            /\ error' = NoError
            /\ memory' = memory
            /\ instruction_pointer' = instruction_pointer
            /\ output' = output
            /\ input_log' = input_log
       /\ last.tag # "Halt"
       /\ (init' = <<99, 1101, 10, 20, 0>> /\ steps' > 0) =>
            /\ steps' = 1
            /\ status' = "Halted"
            /\ memory' = init']_vars

\* [99,1101,10,20,0] halted on its first cell and is unchanged.
C20_Witness ==
    /\ init = <<99, 1101, 10, 20, 0>>
    /\ status = "Halted"
    /\ last.tag = "Halt"
    /\ last.address = 0
    /\ memory = init
    /\ output = <<>>
    /\ input_log = <<>>

\* ------------------------------------------- claims about the VM contract

\* C21: a run over an empty memory returns Ok without decoding or executing
\* anything: no iteration takes place, no input is read, nothing is emitted,
\* no error is produced and the memory stays empty.
C21_EmptyMemory ==
    (vm = "program" /\ init = <<>>) =>
        /\ status \in {"Constructed", "Halted"}
        /\ memory = <<>>
        /\ instruction_pointer = 0
        /\ steps = 0
        /\ last = NoLast
        /\ error = NoError
        /\ input_log = <<>>
        /\ output = <<>>

\* The run over the empty memory has returned Ok.
C21_Witness ==
    vm = "program" /\ init = <<>> /\ status = "Halted" /\ memory = <<>>

\* The day 2 example whose second instruction is written by the first.
SelfModifying == <<1, 1, 1, 4, 99, 5, 6, 0, 99>>

\* C22: opcodes and data share one address space: the cell decoded by an
\* iteration is the cell of the current memory at the pointer, so a write
\* made earlier to a cell the pointer reaches later changes the instruction
\* decoded there; [1,1,1,4,99,5,6,0,99] runs the Multiplication its Addition
\* wrote over cell 4 and returns Ok with memory [30,1,1,4,2,5,6,0,99].
C22_SharedAddressSpace ==
    vm = "program" =>
        /\ (last.tag # "None" /\ last.address < Len(last.before)) =>
                last.raw = last.before[last.address + 1]
        /\ (init = SelfModifying /\ status \notin {"Constructed", "Running"}) =>
                /\ status = "Halted"
                /\ memory = <<30, 1, 1, 4, 2, 5, 6, 0, 99>>
                /\ steps = 3

\* The example has returned, and an instruction was decoded from a cell an
\* earlier instruction had written.
C22_Witness ==
    /\ vm = "program"
    /\ init = SelfModifying
    /\ status = "Halted"
    /\ memory[5] = 2
    /\ init[5] = 99

\* The latest instruction was handed to the executor of `name` and its
\* process_parameters returned Ok.
PassedResolution(name) == last.opcode = name /\ last.resolved

\* C23: the input callable is invoked exactly once by each Store that passes
\* parameter resolution and by nothing else (not by a Store whose resolution
\* fails, not by another opcode, not by the entry of run); the output
\* callable is invoked exactly once by each Print that passes parameter
\* resolution and by nothing else, and each emitted value is appended after
\* the values emitted before it.
C23_CallablesOncePerInstruction ==
    [][/\ input_log' =
            IF Iterates /\ PassedResolution("Store")'
            THEN input_log \o last'.inp
            ELSE input_log
       /\ (Iterates /\ PassedResolution("Store")') =>
            (Len(last'.inp) = 1 /\ last'.inp[1] \in InputVals)
       /\ output' =
            IF Iterates /\ PassedResolution("Print")'
            THEN Append(output, last'.read_values[1])
            ELSE output]_vars

\* [3,0,4,0]: the Store consumed one value, the Print after it emitted that
\* value, and the run ended.
C23_Witness ==
    /\ vm = "program"
    /\ init = <<3, 0, 4, 0>>
    /\ status = "Halted"
    /\ PassedResolution("Print")
    /\ input_log = <<77>>
    /\ output = <<77>>

C24_WitnessInput ==
    /\ vm = "legacy"
    /\ last.io = "InputFailed"
    /\ error.kind = "Input"
    /\ memory = init

\* C25: Halted and Failed are terminal: once run has returned, a further call
\* of run on the same instance changes neither the memory nor the instruction
\* pointer, consumes no input, emits nothing and does not abort.
C25_Terminal ==
    [][(vm = "program" /\ status \in {"Halted", "Failed", "Resumed"}) =>
            /\ memory' = memory
            /\ instruction_pointer' = instruction_pointer
            /\ input_log' = input_log
            /\ output' = output
            /\ status' # "Aborted"]_vars

\* C26: Program::with_io copies the snapshot: a VM that has not run yet holds
\* the snapshot cell for cell, no step of any run changes the caller's
\* snapshot, and a second VM built from the same snapshot, whenever it is
\* built, starts at pointer 0 from the original cells whatever the first run
\* has written.
C26_SnapshotCopied ==
    [][/\ init' = init
       /\ status = "Constructed" =>
            (memory = init /\ instruction_pointer = 0)
       /\ (peer.status = "Absent" /\ peer'.status = "Constructed"
              /\ peer'.snapshot = init) =>
            (peer'.memory = init /\ peer'.instruction_pointer = 0)]_vars

\* The first run has written to its memory and returned, and a second VM was
\* then built from the same snapshot.
C26_Witness ==
    /\ vm = "program"
    /\ status = "Halted"
    /\ memory # init
    /\ peer.status = "Constructed"
    /\ peer.snapshot = init
    /\ peer.memory = init

\* What the first and the second instance have ended in.
Outcome ==
    [status |-> status, memory |-> memory, ip |-> instruction_pointer,
     error |-> error, input_log |-> input_log, output |-> output]
PeerOutcome ==
    [status |-> peer.status, memory |-> peer.memory,
     ip |-> peer.instruction_pointer, error |-> peer.error,
     input_log |-> peer.input_log, output |-> peer.output]

Ended(s) == s \in {"Halted", "Failed", "Aborted"}

\* C27: with the steps of two instances interleaved in any order, built from
\* the same snapshot or not, a step of one leaves the memory, the pointer and
\* every other field of the other as they were, and each instance ends in a
\* result, final memory, consumed input and output that a run of it alone
\* from its snapshot ends in.
C27_Independent ==
    [][/\ peer' # peer =>
            UNCHANGED <<memory, instruction_pointer, status, error, output,
                        input_log, steps, last>>
       /\ <<memory, instruction_pointer, status>>'
              # <<memory, instruction_pointer, status>> => peer' = peer
       /\ Ended(status') => Outcome' \in run(init)
       /\ Ended(peer'.status) => PeerOutcome' \in run(peer'.snapshot)]_vars

\* Two instances built from the same self-modifying snapshot have both run
\* to their Halt, each having written to its own memory.
C27_Witness ==
    /\ vm = "program"
    /\ init = SelfModifying
    /\ peer.snapshot = SelfModifying
    /\ status = "Halted"
    /\ peer.status = "Halted"
    /\ memory = peer.memory
    /\ memory # init

\* The call of process_parameters has returned or aborted.
Resolved == vm = "resolver" /\ status # "Constructed"

\* The instruction runs past the end of memory.
PastEnd == instruction_pointer + 1 + Len(last.types) > Len(memory)

\* C28: process_parameters compares the number of Read slots of param_types
\* with the number of read modes before it touches memory: when they differ
\* it returns ReadModeMismatch(number of Read slots, number of modes), having
\* read no cell, also when the instruction runs past the end of memory or
\* holds an out-of-range address; when they agree it never returns that
\* error.
C28_ReadModeMismatchFirst ==
    Resolved =>
        IF CountRead(last.types) # Len(last.modes)
        THEN /\ status = "Resolved"
             /\ error.kind = "ReadModeMismatch"
             /\ error.arg = CountRead(last.types)
             /\ error.arg2 = Len(last.modes)
             /\ last.reads = <<>>
        ELSE error.kind # "ReadModeMismatch"

\* Two Read slots met one read mode in an instruction that also runs past the
\* end of memory.
C28_Witness ==
    /\ Resolved
    /\ error.kind = "ReadModeMismatch"
    /\ error.arg = 2
    /\ error.arg2 = 1
    /\ PastEnd

\* Two Read slots met three read modes in an instruction lying within memory
\* whose first parameter is an out-of-range address.
C28_WitnessAddress ==
    /\ Resolved
    /\ error.kind = "ReadModeMismatch"
    /\ error.arg = 2
    /\ error.arg2 = 3
    /\ ~PastEnd
    /\ memory[instruction_pointer + 2] = 5555

\* The run of the instance has returned or aborted.
RunOver == vm = "program" /\ status \notin {"Constructed", "Running"}

\* C29: the 47-cell program of test_day5_part2_example3, run on a fresh VM
\* with the single input v, returns Ok having consumed v alone and emitted
\* exactly one value: 999 when v < 8, 1000 when v = 8, 1001 when v > 8.
C29_CompareWithEight ==
    (RunOver /\ init = Day5Compare) =>
        /\ status = "Halted"
        /\ Len(input_log) = 1
        /\ output = <<IF input_log[1] < 8 THEN 999
                      ELSE IF input_log[1] = 8 THEN 1000
                      ELSE 1001>>

\* C30: each of the two zero-test programs of day 5, run on a fresh VM with
\* the single input v, returns Ok having consumed v alone and emitted exactly
\* one value: 0 when v = 0 and 1 otherwise.
C30_ZeroTest ==
    (RunOver /\ init \in {Day5JumpPosition, Day5JumpImmediate}) =>
        /\ status = "Halted"
        /\ Len(input_log) = 1
        /\ output = <<IF input_log[1] = 0 THEN 0 ELSE 1>>

\* The Position-mode program has answered 1 to a non-zero input.
C30_Witness ==
    /\ RunOver
    /\ init = Day5JumpPosition
    /\ input_log = <<77>>
    /\ output = <<1>>
    /\ status = "Halted"

\* The other three cases: the Position-mode program on 0, the Immediate-mode
\* program on 0 and on a non-zero input.
C30_WitnessPositionZero ==
    /\ RunOver
    /\ init = Day5JumpPosition
    /\ input_log = <<0>>
    /\ output = <<0>>
C30_WitnessImmediateZero ==
    /\ RunOver
    /\ init = Day5JumpImmediate
    /\ input_log = <<0>>
    /\ output = <<0>>
C30_WitnessImmediateNonZero ==
    /\ RunOver
    /\ init = Day5JumpImmediate
    /\ input_log = <<8>>
    /\ output = <<1>>

\* ------------------------------------------- claims of the last group

\* C31: write_instruction_pointer(a) sets the instruction pointer to a only
\* when a < len(memory); for every a >= len(memory), a = len(memory)
\* included, it aborts and leaves the pointer as it was, so that the pointer
\* never equals len(memory) through this operation.
C31_WriteInstructionPointer ==
    (vm = "system" /\ last.tag # "None") =>
        /\ IF last.next < Len(memory)
           THEN /\ last.tag = "Ok"
                /\ status # "Aborted"
                /\ instruction_pointer = last.next
           ELSE /\ last.tag = "Panic"
                /\ status = "Aborted"
                /\ instruction_pointer = last.address
        /\ last.tag = "Ok" => instruction_pointer # Len(memory)
        /\ instruction_pointer = Len(memory) =>
                (memory = <<>> /\ instruction_pointer = 0)

\* The pointer had been moved to cell 2 of a three-cell memory, and the call
\* with the length of memory has aborted leaving it there.
C31_Witness ==
    /\ vm = "system"
    /\ Len(memory) = 3
    /\ last.next = 3
    /\ last.address = 2
    /\ status = "Aborted"
    /\ instruction_pointer = 2

\* The five checks of a password, each stated on the string itself.
NotANumber == \E i \in 1..Len(init.value) : init.value[i] \notin AsciiDigits
NotSixDigits == Len(init.value) # 6
OutOfRange == ~contains(init.range, parse_u32(init.value, Len(init.value)))
\* Characters i..j are a maximal run of identical characters.
MaximalRun(i, j) ==
    /\ \A k \in i..j : init.value[k] = init.value[i]
    /\ i > 1 => init.value[i - 1] # init.value[i]
    /\ j < Len(init.value) => init.value[j + 1] # init.value[i]
NoDoubles == ~\E i \in 1..(Len(init.value) - 1) : MaximalRun(i, i + 1)
DigitsDecrease ==
    \E i \in 2..Len(init.value) :
        to_digit(init.value[i]) < to_digit(init.value[i - 1])

\* The kind of the first check that fails, in the order of the claim.
FirstFailure ==
    IF NotANumber THEN "NotANumber"
    ELSE IF NotSixDigits THEN "NotSixDigits"
    ELSE IF OutOfRange THEN "OutOfRange"
    ELSE IF NoDoubles THEN "NoDoubles"
    ELSE IF DigitsDecrease THEN "DigitsDecrease"
    ELSE "None"

\* C32: new_with_range reports the first failing check in the order
\* NotANumber, NotSixDigits, OutOfRange, NoDoubles (no maximal run of
\* identical digits has length exactly 2), DigitsDecrease, and returns Ok
\* holding the unchanged string exactly when all five checks pass.
C32_PasswordChecks ==
    (vm = "password" /\ status # "Constructed") =>
        /\ error.kind = FirstFailure
        /\ status = "Ok" <=> FirstFailure = "None"
        /\ status = "Ok" => memory = init.value

\* A string with a letter and of the wrong length was reported as not a
\* number.
C32_Witness ==
    /\ vm = "password"
    /\ status = "Err"
    /\ NotANumber
    /\ NotSixDigits
    /\ error.kind = "NotANumber"

\* The other outcomes: each later check failing first, and a password.
C32_WitnessLength ==
    vm = "password" /\ status = "Err" /\ error.kind = "NotSixDigits"
C32_WitnessRange ==
    /\ vm = "password" /\ status = "Err" /\ error.kind = "OutOfRange"
    /\ NoDoubles /\ DigitsDecrease
C32_WitnessDoubles ==
    /\ vm = "password" /\ status = "Err" /\ error.kind = "NoDoubles"
    /\ DigitsDecrease
    /\ \E i \in 1..4 : init.value[i] = init.value[i + 1]
                       /\ init.value[i] = init.value[i + 2]
C32_WitnessDecrease ==
    vm = "password" /\ status = "Err" /\ error.kind = "DigitsDecrease"
C32_WitnessOk ==
    vm = "password" /\ status = "Ok" /\ memory = <<"1", "1", "1", "1", "4", "4">>

\* The cells (1-based) the latest iteration has changed.
ChangedCells ==
    {i \in 1..Len(last.before) : i > Len(memory) \/ memory[i] # last.before[i]}

\* C33: each executed instruction changes at most one memory cell, the write
\* target for Addition, Multiplication, LessThan and Store and none for
\* Print, the jumps and Halt (nor for an instruction that fails), and the
\* memory keeps the length of the initial snapshot in every reachable state.
C33_Frame ==
    vm = "program" =>
        /\ Len(memory) = Len(init)
        /\ last.tag # "None" =>
            /\ Len(last.before) = Len(init)
            /\ Cardinality(ChangedCells) <= 1
            /\ ChangedCells # {} =>
                /\ HasWrite
                /\ last.tag = "Ok"
                /\ ChangedCells = {WriteAddress + 1}
            /\ last.opcode \in {"Print", "JumpIf", "Halt"} =>
                ChangedCells = {}

\* An Addition has changed its target cell and no other; a Print after a
\* Store has changed none.
C33_Witness ==
    /\ vm = "program"
    /\ last.opcode = "Addition"
    /\ ChangedCells = {WriteAddress + 1}
    /\ Len(memory) = MaxLen
C33_WitnessPrint ==
    /\ vm = "program"
    /\ last.opcode = "Print"
    /\ last.tag = "Ok"
    /\ memory # init
    /\ ChangedCells = {}

\* No jump of the run so far has been taken.
NoJumpTaken == vm = "program" /\ last.jumps = 0

C34_WitnessJumpNotTaken ==
    /\ NoJumpTaken
    /\ last.opcode = "JumpIf"
    /\ last.tag = "Ok"
    /\ instruction_pointer = last.address + 3
    /\ status = "Running"

\* The k-th parameter of the latest instruction is used as an address: a read
\* parameter in Position mode, or the write parameter.
AddressParam(k) ==
    \/ (k <= Len(last.modes) /\ last.modes[k] = Position)
    \/ (HasWrite /\ k = Size(last.opcode) - 1)

\* The unsigned index a negative cell value converts to.
Unsigned(v) == v + Modulus

\* No address parameter before the k-th is at or beyond the end of memory.
FirstOutside(k) ==
    \A j \in 1..(k - 1) :
        AddressParam(j) =>
            (RawParam(j) >= 0 /\ RawParam(j) < Len(last.before))

\* The indices handed to read_memory and write_memory by the latest
\* instruction.
Touched ==
    {last.reads[i] : i \in 1..Len(last.reads)}
        \cup {last.writes[i] : i \in 1..Len(last.writes)}

\* C35: a negative cell value used as a Position-mode read address or as a
\* write target is never taken for an address within memory: converted to an
\* unsigned index it exceeds len(memory), the instruction does not succeed,
\* no cell is read or written at that index nor is any cell changed, and when
\* it is the first parameter to fail, resolution returns AddressOutOfRange
\* with the converted index.
C35_NegativeAddress ==
    (vm = "program" /\ Executed /\ InBounds) =>
        \A k \in 1..(Size(last.opcode) - 1) :
            (AddressParam(k) /\ RawParam(k) < 0) =>
                /\ Unsigned(RawParam(k)) > Len(last.before)
                /\ last.tag # "Ok"
                /\ memory = last.before
                /\ Touched \subseteq 0..Len(last.before)
                /\ Unsigned(RawParam(k)) \notin Touched
                /\ FirstOutside(k) =>
                    /\ last.tag = "Err"
                    /\ status = "Failed"
                    /\ error.kind = "AddressOutOfRange"
                    /\ error.arg = Unsigned(RawParam(k))

\* A negative write target after two resolved reads, and a negative read
\* address, were each rejected.
C35_Witness ==
    /\ vm = "program"
    /\ HasWrite
    /\ InBounds
    /\ RawParam(Size(last.opcode) - 1) = -1
    /\ FirstOutside(Size(last.opcode) - 1)
    /\ Len(last.modes) = 2
    /\ error.kind = "AddressOutOfRange"
    /\ error.arg = Unsigned(-1)
C35_WitnessRead ==
    /\ vm = "program"
    /\ last.opcode = "Print"
    /\ InBounds
    /\ last.modes = <<Position>>
    /\ RawParam(1) = -1
    /\ error.kind = "AddressOutOfRange"

\* C36: Opcode::parse returns Err(InvalidOpcode) for every negative raw
\* value: the remainder raw % 100 of a negative raw lies in -99..0, never
\* among the listed families, so no negative raw decodes to an opcode, and
\* none reaches parse_parameter_mode.
C36_NegativeRaw ==
    (vm = "decoder" /\ status # "Constructed" /\ last.raw < 0) =>
        /\ status = "Decoded"
        /\ last.tag = "DecodeErr"
        /\ last.opcode = "None"
        /\ error.kind = "InvalidOpcode"

\* -199, whose magnitude ends in 99, was decoded to InvalidOpcode.
C36_Witness ==
    /\ vm = "decoder"
    /\ last.raw = -199
    /\ last.tag = "DecodeErr"
    /\ error.kind = "InvalidOpcode"
C36_WitnessMinusOne ==
    /\ vm = "decoder"
    /\ last.raw = -1
    /\ error.kind = "InvalidOpcode"

\* The latest raw value is non-negative and its low two digits are f.
LowDigits(f) == last.raw >= 0 /\ last.raw % 100 = f

\* C37: for the Store and Halt families Opcode::parse looks at the low two
\* digits only: every non-negative raw ending in 03 decodes to Store and every
\* one ending in 99 to Halt, whatever the digits above, and none returns
\* InvalidParameterMode; a Store so decoded and executed by the run loop
\* takes its one parameter as the address it writes the input to, and a Halt
\* so decoded ends the run with Ok.
C37_HighDigitsIgnored ==
    /\ (vm = "decoder" /\ status # "Constructed" /\ LowDigits(3)) =>
            /\ last.tag = "Decoded"
            /\ last.opcode = "Store"
            /\ last.modes = <<>>
            /\ error = NoError
    /\ (vm = "decoder" /\ status # "Constructed" /\ LowDigits(99)) =>
            /\ last.tag = "Decoded"
            /\ last.opcode = "Halt"
            /\ error = NoError
    /\ (vm = "program" /\ steps > 0 /\ last.tag # "None" /\ LowDigits(3)
            /\ last.address < Len(last.before)) =>
            /\ last.opcode = "Store"
            /\ last.modes = <<>>
            /\ error.kind # "InvalidParameterMode"
            /\ last.tag = "Ok" =>
                /\ RawParam(1) \in 0..(Len(last.before) - 1)
                /\ Len(last.inp) = 1
                /\ last.writes = <<RawParam(1)>>
                /\ memory = [last.before EXCEPT ![RawParam(1) + 1] = last.inp[1]]
                /\ instruction_pointer = last.address + 2
    /\ (vm = "program" /\ steps > 0 /\ LowDigits(99)
            /\ last.address < Len(last.before)) =>
            /\ last.opcode = "Halt"
            /\ status = "Halted"
            /\ error = NoError
            /\ memory = last.before

\* 1003, whose digit for the first parameter is 10, was executed as a Store
\* and wrote the input to the cell its parameter names.
C37_Witness ==
    /\ vm = "program"
    /\ last.raw = 1003
    /\ last.tag = "Ok"
    /\ last.before = <<1003, 2, 99>>
    /\ memory = <<1003, 2, 77>>

\* 10003, whose digits for the first parameter no mode has, executed as a
\* Store; 199 ended a run; both decode on their own.
C37_WitnessNoMode ==
    /\ vm = "program"
    /\ last.raw = 10003
    /\ last.tag = "Ok"
    /\ memory[1] = 8
C37_WitnessHalt ==
    /\ vm = "program"
    /\ last.raw = 199
    /\ status = "Halted"
    /\ steps = 1
C37_WitnessDecoded ==
    /\ vm = "decoder"
    /\ last.raw = 10003
    /\ last.opcode = "Store"
C37_WitnessDecodedHalt ==
    /\ vm = "decoder"
    /\ last.raw = 199
    /\ last.opcode = "Halt"

\* The error kinds Program::run can return.
RunErrorKinds ==
    {"InvalidOpcode", "InvalidParameterMode", "NotEnoughParameters",
     "AddressOutOfRange"}

\* The number of Read parameters of the executor of each opcode.
ReadCount(name) ==
    CASE name \in {"Addition", "Multiplication", "LessThan", "JumpIf"} -> 2
      [] name = "Print" -> 1
      [] OTHER -> 0

\* C38: Program::run never returns ReadModeMismatch: every executor the loop
\* dispatches is handed as many read modes as its instruction has Read
\* parameters, so the test on the number of modes never fails, and an error
\* run returns is InvalidOpcode, InvalidParameterMode, NotEnoughParameters or
\* AddressOutOfRange.
C38_NoReadModeMismatch ==
    vm = "program" =>
        /\ error.kind # "ReadModeMismatch"
        /\ last.kind # "ReadModeMismatch"
        /\ status = "Failed" => error.kind \in RunErrorKinds
        /\ status # "Failed" => error = NoError
        /\ Executed => Len(last.modes) = ReadCount(last.opcode)

\* A Print and a two-read instruction each went through the test on the number
\* of modes and failed later, on an address; each of the other kinds was
\* returned too.
C38_Witness ==
    /\ vm = "program"
    /\ status = "Failed"
    /\ last.opcode = "Print"
    /\ last.modes = <<Position>>
    /\ error.kind = "AddressOutOfRange"
C38_WitnessTwoReads ==
    /\ vm = "program"
    /\ status = "Failed"
    /\ Len(last.modes) = 2
    /\ error.kind = "AddressOutOfRange"
C38_WitnessNotEnough ==
    /\ vm = "program"
    /\ status = "Failed"
    /\ error.kind = "NotEnoughParameters"
C38_WitnessInvalidOpcode ==
    /\ vm = "program"
    /\ status = "Failed"
    /\ error.kind = "InvalidOpcode"
C38_WitnessInvalidMode ==
    /\ vm = "program"
    /\ status = "Failed"
    /\ error.kind = "InvalidParameterMode"

\* One sequence is the beginning of the other: two runs fed the same input
\* sequence have consumed such logs.
Compatible(a, b) ==
    LET n == IF Len(a) <= Len(b) THEN Len(a) ELSE Len(b)
    IN  SubSeq(a, 1, n) = SubSeq(b, 1, n)

\* Two runs of Program::run have been started from equal snapshots and, as far
\* as they have got, have been fed the same inputs.
TwinRuns ==
    /\ vm = "program"
    /\ peer.snapshot = init
    /\ status # "Constructed"
    /\ peer.status \notin {"Absent", "Constructed"}
    /\ Compatible(input_log, peer.input_log)

\* The two runs are runs of one build: no overflow has aborted in one and
\* wrapped in the other.
SameBuild == ~({"abort", "wrap"} \subseteq (last.overflow \cup peer.last.overflow))

C39_WitnessOtherInput ==
    /\ vm = "program"
    /\ peer.snapshot = init
    /\ Ended(status)
    /\ Ended(peer.status)
    /\ input_log # peer.input_log
    /\ output # peer.output
C39_WitnessWrapped ==
    /\ TwinRuns
    /\ last.overflow = {"wrap"}
    /\ peer.last.overflow = {"wrap"}
    /\ Len(input_log) = 1
    /\ status = "Halted"
    /\ peer.status = "Halted"
C39_WitnessAborted ==
    /\ TwinRuns
    /\ last.overflow = {"abort"}
    /\ peer.last.overflow = {"abort"}
    /\ status = "Aborted"
    /\ peer.status = "Aborted"
C39_WitnessLockstep ==
    /\ TwinRuns
    /\ init = SelfModifying
    /\ steps = 2
    /\ peer.steps = 2
    /\ status = "Running"
    /\ memory # init

====
